---------------------------- MODULE Spec2Model ----------------------------
(***************************************************************************)
(* Host fact resolver of src/app/api/system/route.ts.                      *)
(*                                                                         *)
(* The source file holds two generations of the route: the three-tier one  *)
(* (lines 1-294: /proc/1/root, /host, container) and the two-tier one      *)
(* (lines 296-630: /host, container).  Definitions of the second carry the *)
(* suffix 2.                                                               *)
(*                                                                         *)
(* Text is a sequence of one-character strings, so that trim, split,       *)
(* startsWith, the regular expressions and parseInt are computed on the    *)
(* characters as the code computes them.  A number that JavaScript holds   *)
(* as a double is an exact rational, or NaN, or Infinity.                  *)
(***************************************************************************)
EXTENDS Integers, Sequences, FiniteSets, TLC

VARIABLES
    fsys,        \* the filesystem: path -> node, as existsSync/statSync/readFileSync see it
    statfsQ,     \* root path -> outcomes of the successive fs.statfsSync queries of one call
    osCpus,      \* os.cpus(): the sequence of the CPUs' model texts
    osTotalmem,  \* os.totalmem(), bytes
    osFreemem,   \* os.freemem(), bytes
    osLoadavg,   \* os.loadavg(): three numbers
    osHostname,  \* os.hostname()
    osRelease,   \* os.release()
    osType,      \* os.type()
    osArch,      \* os.arch()
    osUptime,    \* os.uptime(), seconds
    osInterfaces,\* os.networkInterfaces(): a sequence of <<name, addresses>>
    osFails,     \* the os calls that throw a system error
    op,          \* the operation that ran last ("none" before any)
    ret,         \* what it returned
    accounts,    \* createTempUsers.sh: user name -> the account, if any
    atQueue,     \* the pending jobs of at(1)
    clock,       \* the time, in hours
    script       \* the run of createTempUsers.sh in progress, if any

host == <<fsys, statfsQ, osCpus, osTotalmem, osFreemem, osLoadavg,
          osHostname, osRelease, osType, osArch, osUptime, osInterfaces, osFails>>
machine == <<accounts, atQueue, clock, script>>
vars == <<host, op, ret, machine>>
env == <<host, machine>>

-----------------------------------------------------------------------------
(* Bounds of the model.                                                    *)

\* lines drawn into a generated document
MaxDocLines == 2
\* largest kB figure of a generated meminfo line
MaxKB == 3
\* largest value of a generated /proc/stat counter
MaxTick == 2
\* largest N of a generated `CPU(s): N` line
MaxCpuN == 2
\* largest length of os.cpus()
MaxOsCpus == 2
\* largest 1-minute load average, in halves
MaxLoadHalves == 3
\* largest block count of a generated statfs answer
MaxBlocks == 2
\* the last hour of the clock
MaxClock == 5
\* runs of createTempUsers.sh in one behaviour
MaxRuns == 2

-----------------------------------------------------------------------------
(* Text.                                                                   *)

WhiteSpace == {" ", "\t", "\n"}
Digit == <<"0", "1", "2", "3", "4", "5", "6", "7", "8", "9">>
Upper == <<"A", "B", "C", "D", "E", "F", "G", "H", "I", "J", "K", "L", "M",
           "N", "O", "P", "Q", "R", "S", "T", "U", "V", "W", "X", "Y", "Z">>
Lower == <<"a", "b", "c", "d", "e", "f", "g", "h", "i", "j", "k", "l", "m",
           "n", "o", "p", "q", "r", "s", "t", "u", "v", "w", "x", "y", "z">>

IsDigit(c) == \E i \in 1..10 : Digit[i] = c
DigitVal(c) == (CHOOSE i \in 1..10 : Digit[i] = c) - 1

RECURSIVE trimStart(_)
trimStart(s) ==
    IF s = <<>> THEN s
    ELSE IF Head(s) \in WhiteSpace THEN trimStart(Tail(s)) ELSE s

RECURSIVE trimEnd(_)
trimEnd(s) ==
    IF s = <<>> THEN s
    ELSE IF s[Len(s)] \in WhiteSpace THEN trimEnd(SubSeq(s, 1, Len(s) - 1)) ELSE s

\* String.prototype.trim
trim(s) == trimEnd(trimStart(s))

startsWith(s, pre) ==
    /\ Len(s) >= Len(pre)
    /\ SubSeq(s, 1, Len(pre)) = pre

includes(s, sub) ==
    \E i \in 1..(Len(s) - Len(sub) + 1) : SubSeq(s, i, i + Len(sub) - 1) = sub

toLowerCase(s) ==
    [i \in 1..Len(s) |->
        IF \E k \in 1..26 : Upper[k] = s[i]
        THEN Lower[CHOOSE k \in 1..26 : Upper[k] = s[i]]
        ELSE s[i]]

\* s.split(sep) for a separator that is a set of single characters
RECURSIVE splitOn(_, _)
splitOn(s, seps) ==
    IF \A i \in 1..Len(s) : s[i] \notin seps THEN <<s>>
    ELSE LET i == CHOOSE j \in 1..Len(s) :
                      /\ s[j] \in seps
                      /\ \A k \in 1..(j - 1) : s[k] \notin seps
         IN <<SubSeq(s, 1, i - 1)>> \o splitOn(SubSeq(s, i + 1, Len(s)), seps)

\* s.split("\n")
splitLines(s) == splitOn(s, {"\n"})

\* lines.join("\n")
RECURSIVE joinLines(_)
joinLines(ls) ==
    IF ls = <<>> THEN <<>>
    ELSE IF Len(ls) = 1 THEN ls[1]
    ELSE ls[1] \o <<"\n">> \o joinLines(Tail(ls))

\* s.trim().split(/\s+/): the maximal runs of non-whitespace of a trimmed text
RECURSIVE splitWs(_)
splitWs(s) ==
    IF s = <<>> THEN <<<<>>>>
    ELSE IF \A i \in 1..Len(s) : s[i] \notin WhiteSpace THEN <<s>>
    ELSE LET i == CHOOSE j \in 1..Len(s) :
                      /\ s[j] \in WhiteSpace
                      /\ \A k \in 1..(j - 1) : s[k] \notin WhiteSpace
         IN <<SubSeq(s, 1, i - 1)>> \o splitWs(trimStart(SubSeq(s, i, Len(s))))

\* lines.find(pred): 0 when no line satisfies pred, else the first index
FindFirst(ls, Pred(_)) ==
    IF \E i \in 1..Len(ls) : Pred(ls[i])
    THEN CHOOSE i \in 1..Len(ls) : Pred(ls[i]) /\ \A k \in 1..(i - 1) : ~Pred(ls[k])
    ELSE 0

RECURSIVE TakeDigits(_)
TakeDigits(s) ==
    IF s = <<>> \/ ~IsDigit(Head(s)) THEN <<>>
    ELSE <<Head(s)>> \o TakeDigits(Tail(s))

\* line.match(/(\d+)/): the first maximal run of digits, <<>> when there is none
RECURSIVE matchDigits(_)
matchDigits(s) ==
    IF s = <<>> THEN <<>>
    ELSE IF IsDigit(Head(s)) THEN TakeDigits(s) ELSE matchDigits(Tail(s))

\* parseInt of a non-empty run of digits
RECURSIVE parseInt(_)
parseInt(ds) ==
    IF ds = <<>> THEN 0
    ELSE parseInt(SubSeq(ds, 1, Len(ds) - 1)) * 10 + DigitVal(ds[Len(ds)])

\* `${n}` for an integer n >= 0
RECURSIVE toString(_)
toString(n) ==
    IF n < 10 THEN <<Digit[n + 1]>>
    ELSE toString(n \div 10) \o <<Digit[(n % 10) + 1]>>

-----------------------------------------------------------------------------
(* Numbers: exact rationals in lowest terms, NaN and Infinity.             *)

RECURSIVE GCD(_, _)
GCD(a, b) == IF b = 0 THEN a ELSE GCD(b, a % b)

Abs(n) == IF n < 0 THEN -n ELSE n

NaN == [k |-> "nan", n |-> 0, d |-> 1]
Infinity == [k |-> "inf", n |-> 1, d |-> 1]
NegInfinity == [k |-> "ninf", n |-> -1, d |-> 1]

\* the rational n/d, d > 0
Rat(n, d) ==
    LET g == GCD(Abs(n), d)
    IN [k |-> "fin", n |-> n \div g, d |-> d \div g]

Num(n) == Rat(n, 1)

IsFinite(x) == x.k = "fin"

\* a / b of finite numbers, b >= 0: x/0 is NaN, Infinity or -Infinity
Div(a, b) ==
    IF ~IsFinite(a) \/ ~IsFinite(b) THEN NaN
    ELSE IF b.n = 0
         THEN (IF a.n = 0 THEN NaN ELSE IF a.n > 0 THEN Infinity ELSE NegInfinity)
    ELSE Rat(a.n * b.d, a.d * b.n)

\* a * 100
Times100(a) == IF IsFinite(a) THEN Rat(a.n * 100, a.d) ELSE a

Leq(a, b) == a.n * b.d <= b.n * a.d

\* Math.min(a, b), b finite
MathMin(a, b) ==
    IF a.k = "nan" THEN NaN
    ELSE IF a.k = "inf" THEN b
    ELSE IF a.k = "ninf" THEN a
    ELSE IF Leq(a, b) THEN a ELSE b

\* Math.max(a, b), b finite
MathMax(a, b) ==
    IF a.k = "nan" THEN NaN
    ELSE IF a.k = "inf" THEN a
    ELSE IF a.k = "ninf" THEN b
    ELSE IF Leq(a, b) THEN b ELSE a

\* x is a number within [0, 100]
InPercentRange(x) == IsFinite(x) /\ Leq(Num(0), x) /\ Leq(x, Num(100))

-----------------------------------------------------------------------------
(* The filesystem.                                                         *)

HOST_ROOT == "/host"
PROC1_ROOT == "/proc/1/root"

\* the logical files the route reads
Paths == {"/proc/cpuinfo", "/proc/meminfo", "/proc/stat"}

\* the directories whose existence the route tests
Dirs == {PROC1_ROOT, HOST_ROOT \o "/proc", HOST_ROOT \o "/sys", HOST_ROOT \o "/etc"}

\* the further logical files the two-tier route reads
Paths2 == {"/etc/hostname", "/etc/os-release", "/proc/version", "/proc/net/route",
           "/proc/uptime", "/proc/loadavg"}

AllPaths ==
    Dirs \cup {PROC1_ROOT \o p : p \in Paths}
         \cup {HOST_ROOT \o p : p \in Paths \cup Paths2}
         \cup Paths \cup Paths2

\* A node: absent; a directory (or any other non-regular file); a path whose
\* stat fails; a regular file whose read fails; a regular file with its content.
Missing == [st |-> "missing", data |-> <<>>]
Dir == [st |-> "dir", data |-> <<>>]
StatErr == [st |-> "staterr", data |-> <<>>]
ReadErr == [st |-> "readerr", data |-> <<>>]
File(text) == [st |-> "file", data |-> text]

\* fs.existsSync(p)
existsSync(p) == fsys[p].st # "missing"

isHostMounted ==
    /\ existsSync(HOST_ROOT \o "/proc")
    /\ existsSync(HOST_ROOT \o "/sys")
    /\ existsSync(HOST_ROOT \o "/etc")

NoContent == [kind |-> "none", val |-> <<>>]
Thrown == [kind |-> "throw", val |-> <<>>]
Content(text) == [kind |-> "text", val |-> text]

\* fs.statSync(p) throws
statThrows(p) == fsys[p].st = "staterr"

\* fs.statSync(p).isFile()
isFile(p) == fsys[p].st \in {"file", "readerr"}

\* fs.readFileSync(p, "utf-8") throws
readThrows(p) == fsys[p].st # "file"

\* The body of one try block of readHostFile at candidate p: existsSync,
\* statSync, isFile, readFileSync and the non-empty test.
tryCandidate(p) ==
    IF ~existsSync(p) THEN NoContent
    ELSE IF statThrows(p) THEN Thrown
    ELSE IF ~isFile(p) THEN NoContent
    ELSE IF readThrows(p) THEN Thrown
    ELSE IF Len(fsys[p].data) > 0 /\ Len(trim(fsys[p].data)) > 0
         THEN Content(trim(fsys[p].data))
         ELSE NoContent

\* catch (error) { }: a throw of the try block is swallowed
catch(r) == IF r.kind = "throw" THEN NoContent ELSE r

\* The order of the attempts and the final `return fallback()`.  `fallback` is
\* the text the caller's fallback function produces; the function is called
\* only where fallbackCalls is 1.  tier: the candidate the text came from, 0
\* for none.  raised: an exception left the function.
resolve(t1, t2, t3, fallback) ==
    IF t1.kind = "throw" THEN [val |-> <<>>, tier |-> 0, fallbackCalls |-> 0, raised |-> TRUE]
    ELSE IF t1.kind = "text" THEN [val |-> t1.val, tier |-> 1, fallbackCalls |-> 0, raised |-> FALSE]
    ELSE IF t2.kind = "throw" THEN [val |-> <<>>, tier |-> 0, fallbackCalls |-> 0, raised |-> TRUE]
    ELSE IF t2.kind = "text" THEN [val |-> t2.val, tier |-> 2, fallbackCalls |-> 0, raised |-> FALSE]
    ELSE IF t3.kind = "throw" THEN [val |-> <<>>, tier |-> 0, fallbackCalls |-> 0, raised |-> TRUE]
    ELSE IF t3.kind = "text" THEN [val |-> t3.val, tier |-> 3, fallbackCalls |-> 0, raised |-> FALSE]
    ELSE [val |-> fallback, tier |-> 0, fallbackCalls |-> 1, raised |-> FALSE]

\* readHostFile, wrong: the container's file is preferred to the host mount
readHostFileLocalFirst(path, fallback) ==
    LET r == resolve(
            IF existsSync(PROC1_ROOT) THEN catch(tryCandidate(PROC1_ROOT \o path)) ELSE NoContent,
            catch(tryCandidate(path)),
            IF isHostMounted THEN catch(tryCandidate(HOST_ROOT \o path)) ELSE NoContent,
            fallback)
    IN [r EXCEPT !.tier = IF @ = 2 THEN 3 ELSE IF @ = 3 THEN 2 ELSE @]

\* readHostFile, wrong: the read of the container's file is not in a try block
readHostFileNoCatch(path, fallback) ==
    resolve(
        IF existsSync(PROC1_ROOT) THEN catch(tryCandidate(PROC1_ROOT \o path)) ELSE NoContent,
        IF isHostMounted THEN catch(tryCandidate(HOST_ROOT \o path)) ELSE NoContent,
        tryCandidate(path),
        fallback)

\* readHostFile of the three-tier route
readHostFile(path, fallback) ==
    resolve(
        IF existsSync(PROC1_ROOT) THEN catch(tryCandidate(PROC1_ROOT \o path)) ELSE NoContent,
        IF isHostMounted THEN catch(tryCandidate(HOST_ROOT \o path)) ELSE NoContent,
        catch(tryCandidate(path)),
        fallback)

\* The body of one try block of the two-tier readHostFile: existsSync,
\* readFileSync (no stat: a directory makes the read throw), the non-empty test.
tryCandidate2(p) ==
    IF ~existsSync(p) THEN NoContent
    ELSE IF readThrows(p) THEN Thrown
    ELSE IF Len(fsys[p].data) > 0 /\ Len(trim(fsys[p].data)) > 0
         THEN Content(trim(fsys[p].data))
         ELSE NoContent

\* readHostFile of the two-tier route
readHostFile2(path, fallback) ==
    resolve(
        NoContent,
        IF isHostMounted THEN catch(tryCandidate2(HOST_ROOT \o path)) ELSE NoContent,
        catch(tryCandidate2(path)),
        fallback)

-----------------------------------------------------------------------------
(* Words of the documents.                                                 *)

kMemTotal == <<"M", "e", "m", "T", "o", "t", "a", "l">>
kMemAvailable == <<"M", "e", "m", "A", "v", "a", "i", "l", "a", "b", "l", "e">>
kMemFree == <<"M", "e", "m", "F", "r", "e", "e">>
kKB == <<" ", "k", "B">>
kColonSp == <<":", " ">>
kModelName == <<"m", "o", "d", "e", "l", " ", "n", "a", "m", "e">>
kModel == <<"m", "o", "d", "e", "l">>
kModelCap == <<"M", "o", "d", "e", "l">>
kName == <<"n", "a", "m", "e">>
kHardware == <<"H", "a", "r", "d", "w", "a", "r", "e">>
kProcessorCap == <<"P", "r", "o", "c", "e", "s", "s", "o", "r">>
kCpuImplementer == <<"C", "P", "U", " ", "i", "m", "p", "l", "e", "m", "e", "n", "t", "e", "r">>
kProcessor == <<"p", "r", "o", "c", "e", "s", "s", "o", "r">>
kCpusLower == <<"c", "p", "u", "(", "s", ")">>
kCpuSp == <<"c", "p", "u", " ">>
kUnknown == <<"U", "n", "k", "n", "o", "w", "n">>
kTabColonSp == <<"\t", ":", " ">>
kFallbackProcessor == <<"p", "r", "o", "c", "e", "s", "s", "o", "r", "\t", ":", " ", "0">>

Separators == {":", "="}

-----------------------------------------------------------------------------
(* Memory.                                                                 *)

\* kBLine, wrong: a kilobyte is taken for 1000 bytes
kBLineDecimal(lines, label, dflt) ==
    LET i == FindFirst(lines, LAMBDA l : startsWith(l, label))
    IN IF i = 0 THEN dflt
       ELSE IF matchDigits(lines[i]) = <<>> THEN dflt
       ELSE parseInt(matchDigits(lines[i])) * 1000

\* The value of the first line that starts with `label`: its first run of
\* digits times 1024; `dflt` when no line starts with it or the line has no digit.
kBLine(lines, label, dflt) ==
    LET i == FindFirst(lines, LAMBDA l : startsWith(l, label))
    IN IF i = 0 THEN dflt
       ELSE IF matchDigits(lines[i]) = <<>> THEN dflt
       ELSE parseInt(matchDigits(lines[i])) * 1024

\* the text the fallback function of getHostMemory produces
memFallback ==
    kMemTotal \o kColonSp \o toString(osTotalmem \div 1024) \o kKB \o <<"\n">>
    \o kMemAvailable \o kColonSp \o toString(osFreemem \div 1024) \o kKB \o <<"\n">>
    \o kMemFree \o kColonSp \o toString(osFreemem \div 1024) \o kKB

\* getHostMemory of the three-tier route
getHostMemory ==
    LET memInfo == readHostFile("/proc/meminfo", memFallback).val
        lines == splitLines(memInfo)
    IN IF Len(memInfo) > 0
       THEN [total |-> kBLine(lines, kMemTotal, osTotalmem),
             free |-> kBLine(lines, kMemFree, osFreemem),
             available |-> kBLine(lines, kMemAvailable, osFreemem)]
       ELSE [total |-> osTotalmem, free |-> osFreemem, available |-> osFreemem]

\* the text the fallback function of the two-tier getHostMemory produces
memFallback2 ==
    kMemTotal \o kColonSp \o toString(osTotalmem \div 1024) \o kKB \o <<"\n">>
    \o kMemAvailable \o kColonSp \o toString(osFreemem \div 1024) \o kKB

\* getHostMemory of the two-tier route: `free` is read from the first
\* MemAvailable line, or, when there is none, from the first MemFree line
getHostMemory2 ==
    LET memInfo == readHostFile2("/proc/meminfo", memFallback2).val
        lines == splitLines(memInfo)
        hasAvailable == FindFirst(lines, LAMBDA l : startsWith(l, kMemAvailable)) # 0
    IN IF Len(memInfo) > 0
       THEN [total |-> kBLine(lines, kMemTotal, osTotalmem),
             free |-> IF hasAvailable
                      THEN kBLine(lines, kMemAvailable, osFreemem)
                      ELSE kBLine(lines, kMemFree, osFreemem)]
       ELSE [total |-> osTotalmem, free |-> osFreemem]

-----------------------------------------------------------------------------
(* CPU identity and count.                                                 *)

\* line.match(/^model\s+name\s*[:=]/i) when seps is {":", "="}
matchModelNameSep(line, seps) ==
    LET l == toLowerCase(line)
        r1 == SubSeq(l, Len(kModel) + 1, Len(l))
        r2 == trimStart(r1)
        r3 == trimStart(SubSeq(r2, Len(kName) + 1, Len(r2)))
    IN /\ startsWith(l, kModel)
       /\ r1 # <<>> /\ Head(r1) \in WhiteSpace
       /\ startsWith(r2, kName)
       /\ r3 # <<>> /\ Head(r3) \in seps

\* trimmed.match(/^processor\s*[:=]/i)
matchProcessorSep(line) ==
    LET l == toLowerCase(line)
        r == trimStart(SubSeq(l, Len(kProcessor) + 1, Len(l)))
    IN startsWith(l, kProcessor) /\ r # <<>> /\ Head(r) \in Separators

\* trimmed.match(/^processor\s+\d+/i)
matchProcessorIndex(line) ==
    LET l == toLowerCase(line)
        r1 == SubSeq(l, Len(kProcessor) + 1, Len(l))
        r2 == trimStart(r1)
    IN /\ startsWith(l, kProcessor)
       /\ r1 # <<>> /\ Head(r1) \in WhiteSpace
       /\ r2 # <<>> /\ IsDigit(Head(r2))

\* index of the first separator of the line, 0 when it has none
firstSep(line) == FindFirst(line, LAMBDA c : c \in Separators)

\* modelLine.match(/[:=]\s*(.+)/): the captured group, <<>> when nothing matches.
\* The match starts at the first separator that is followed by a character;
\* \s* gives back one character when only whitespace follows.
matchSepRest(line) ==
    LET i == firstSep(line)
        rest == SubSeq(line, i + 1, Len(line))
    IN IF i = 0 \/ rest = <<>> THEN <<>>
       ELSE IF trimStart(rest) # <<>> THEN trimStart(rest)
       ELSE <<rest[Len(rest)]>>

\* parts.slice(1).join(":") for parts = modelLine.split(/[:=]/)
RECURSIVE joinColon(_)
joinColon(parts) ==
    IF parts = <<>> THEN <<>>
    ELSE IF Len(parts) = 1 THEN parts[1]
    ELSE parts[1] \o <<":">> \o joinColon(Tail(parts))

\* the model text taken from the model line (lines 94-107), before `|| "Unknown"`
modelOfLine(modelLine) ==
    IF matchSepRest(modelLine) # <<>> THEN trim(matchSepRest(modelLine))
    ELSE LET parts == splitOn(modelLine, Separators)
         IN IF Len(parts) > 1 THEN trim(joinColon(Tail(parts)))
            ELSE trim(modelLine)

\* the model line the three-tier getHostCPUInfo picks, 0 for none
findModelLine(lines) ==
    LET first == FindFirst(lines, LAMBDA line :
                     \/ includes(toLowerCase(line), kModelName)
                     \/ (includes(toLowerCase(line), kModel) /\ includes(toLowerCase(line), kName))
                     \/ matchModelNameSep(line, Separators))
        second == FindFirst(lines, LAMBDA line : matchModelNameSep(line, Separators))
        third == FindFirst(lines, LAMBDA line :
                     \/ includes(line, kHardware)
                     \/ includes(line, kProcessorCap)
                     \/ includes(line, kCpuImplementer))
    IN IF first # 0 THEN first ELSE IF second # 0 THEN second ELSE third

\* the processor-entry line of the three-tier getHostCPUInfo
isProcessorLine(line) ==
    /\ startsWith(trim(line), kProcessor)
    /\ (matchProcessorSep(trim(line)) \/ matchProcessorIndex(trim(line)))

\* processorLines.length
countLines(lines, Pred(_)) == Cardinality({i \in 1..Len(lines) : Pred(lines[i])})

\* the text the fallback function of getHostCPUInfo produces
cpuFallback ==
    IF Len(osCpus) > 0
    THEN kModelName \o kTabColonSp \o osCpus[1] \o <<"\n">> \o kFallbackProcessor
    ELSE <<>>

\* x || y for texts
OrText(x, y) == IF x = <<>> THEN y ELSE x

\* x || y for numbers
OrNum(x, y) == IF x = 0 THEN y ELSE x

\* cpus[0]?.model || "Unknown"
osModel == IF Len(osCpus) > 0 THEN OrText(osCpus[1], kUnknown) ELSE kUnknown

\* the count of lines 115-129, before `|| 1`
countOfLines(lines) ==
    LET processors == countLines(lines, isProcessorLine)
        cpuCountLine == FindFirst(lines, LAMBDA line : includes(toLowerCase(line), kCpusLower))
        summary == IF cpuCountLine # 0 /\ matchDigits(lines[cpuCountLine]) # <<>>
                   THEN parseInt(matchDigits(lines[cpuCountLine]))
                   ELSE 0
    IN IF processors # 0 THEN processors
       ELSE IF summary # 0 THEN summary
       ELSE Len(osCpus)

\* getHostCPUInfo of the three-tier route
getHostCPUInfo ==
    LET cpuInfo == readHostFile("/proc/cpuinfo", cpuFallback).val
        lines == splitLines(cpuInfo)
        modelLine == findModelLine(lines)
        model == IF modelLine # 0 THEN modelOfLine(lines[modelLine]) ELSE kUnknown
    IN IF Len(cpuInfo) > 0
       THEN [model |-> OrText(model, kUnknown), count |-> OrNum(countOfLines(lines), 1)]
       ELSE [model |-> osModel, count |-> Len(osCpus)]

\* the model line the two-tier getHostCPUInfo picks, 0 for none
findModelLine2(lines) ==
    LET first == FindFirst(lines, LAMBDA line :
                     \/ includes(toLowerCase(line), kModelName)
                     \/ includes(line, kModelCap)
                     \/ matchModelNameSep(line, {":"}))
        second == FindFirst(lines, LAMBDA line :
                     \/ includes(line, kHardware)
                     \/ includes(line, kProcessorCap)
                     \/ includes(line, kCpuImplementer))
    IN IF first # 0 THEN first ELSE second

\* the model text of the two-tier route (lines 370-378), before `|| "Unknown"`
modelOfLine2(modelLine) ==
    LET parts == splitOn(modelLine, Separators)
    IN IF Len(parts) > 1 THEN trim(joinColon(Tail(parts)))
       ELSE trim(modelLine)

\* the processor-entry line of the two-tier getHostCPUInfo
isProcessorLine2(line) ==
    \/ startsWith(trim(line), kProcessor)
    \/ matchProcessorSep(line)

\* getHostCPUInfo of the two-tier route: no summary line is looked for
getHostCPUInfo2 ==
    LET cpuInfo == readHostFile2("/proc/cpuinfo", cpuFallback).val
        lines == splitLines(cpuInfo)
        modelLine == findModelLine2(lines)
        model == IF modelLine # 0 THEN modelOfLine2(lines[modelLine]) ELSE kUnknown
        processors == countLines(lines, isProcessorLine2)
    IN IF Len(cpuInfo) > 0
       THEN [model |-> OrText(model, kUnknown),
             count |-> IF processors > 0 THEN processors ELSE Len(osCpus)]
       ELSE [model |-> osModel, count |-> Len(osCpus)]

-----------------------------------------------------------------------------
(* CPU utilization.                                                        *)

\* parseFloat(parts[i]) || 0 for the i-th field after "cpu" (parts[0] is "cpu");
\* a field that is absent or does not start with a digit gives 0.  The fields
\* of the model are unsigned integers, as the kernel writes them.
counter(parts, i) ==
    IF i + 1 > Len(parts) THEN 0
    ELSE IF TakeDigits(parts[i + 1]) = <<>> THEN 0
    ELSE parseInt(TakeDigits(parts[i + 1]))

\* totalNonIdle, wrong: iowait is counted as busy time
totalNonIdleWithIowait(parts) ==
    counter(parts, 1) + counter(parts, 2) + counter(parts, 3) + counter(parts, 5)
    + counter(parts, 6) + counter(parts, 7) + counter(parts, 8)

\* user + nice + system + irq + softirq + steal
totalNonIdle(parts) ==
    counter(parts, 1) + counter(parts, 2) + counter(parts, 3)
    + counter(parts, 6) + counter(parts, 7) + counter(parts, 8)

\* idle + iowait
totalIdle(parts) == counter(parts, 4) + counter(parts, 5)

\* the load-average fallback of lines 214-217
loadPercent(count) == MathMin(Times100(Div(osLoadavg[1], Num(count))), Num(100))

\* the fewest fields (with "cpu") a cpu line must have for its counters to be used
MinParts == 5

\* getHostCPUUsage.  loadavgRead: whether os.loadavg() was called.
getHostCPUUsage ==
    LET stat == readHostFile("/proc/stat", <<>>).val
        lines == splitLines(stat)
        cpuLine == FindFirst(lines, LAMBDA line : startsWith(line, kCpuSp))
        parts == splitWs(trim(lines[cpuLine]))
        total == totalIdle(parts) + totalNonIdle(parts)
        usage == Times100(Div(Num(totalNonIdle(parts)), Num(total)))
    IN IF /\ Len(stat) > 0
          /\ cpuLine # 0
          /\ Len(parts) >= MinParts
          /\ total > 0
       THEN [usage |-> MathMin(MathMax(usage, Num(0)), Num(100)), loadavgRead |-> FALSE]
       ELSE [usage |-> loadPercent(getHostCPUInfo.count), loadavgRead |-> TRUE]

-----------------------------------------------------------------------------
(* Disk usage.                                                             *)

RootPaths == {"/", PROC1_ROOT \o "/"}

\* rootPath of getHostDiskUsage and of GET
rootPath == IF existsSync(PROC1_ROOT) THEN PROC1_ROOT \o "/" ELSE "/"

\* an outcome of fs.statfsSync: a throw, or the statistics
StatfsThrows == [throws |-> TRUE, blocks |-> 0, bavail |-> 0, bsize |-> 0]
Statfs(blocks, bavail, bsize) ==
    [throws |-> FALSE, blocks |-> blocks, bavail |-> bavail, bsize |-> bsize]

\* fs.statfsSync(rootPath) of the k-th query of a call
statfsSync(root, k) == statfsQ[root][k]

\* getHostDiskUsage: the first statfs query of the call
getHostDiskUsage ==
    LET stats == statfsSync(rootPath, 1)
        total == stats.blocks * stats.bsize
        free == stats.bavail * stats.bsize
        used == total - free
        usage == Times100(Div(Num(used), Num(total)))
    IN IF stats.throws THEN Num(0)
       ELSE MathMin(MathMax(usage, Num(0)), Num(100))

-----------------------------------------------------------------------------
(* The snapshot.                                                           *)

\* total/used/free of GET: the second statfs query of the call
diskTotals ==
    LET stats == statfsSync(rootPath, 2)
    IN IF stats.throws THEN [total |-> 0, used |-> 0, free |-> 0]
       ELSE [total |-> stats.blocks * stats.bsize,
             used |-> stats.blocks * stats.bsize - stats.bavail * stats.bsize,
             free |-> stats.bavail * stats.bsize]

\* the document GET of the three-tier route answers with
GETDocument ==
    LET hostMounted == isHostMounted
        memory == getHostMemory
        cpuInfo == getHostCPUInfo
        cpuUsage == getHostCPUUsage.usage
        diskUsage == getHostDiskUsage
        disk == diskTotals
    IN [status |-> 200,
        memory |-> [total |-> memory.total,
                    free |-> memory.free,
                    available |-> memory.available,
                    used |-> memory.total - memory.available],
        cpu |-> [count |-> cpuInfo.count, usage |-> cpuUsage],
        disk |-> [total |-> disk.total, used |-> disk.used,
                  free |-> disk.free, usage |-> diskUsage],
        hostMounted |-> hostMounted]

-----------------------------------------------------------------------------
(* The operations.  None of them writes, so a second call in the same       *)
(* environment returns what the first returned: a behaviour is one call.   *)

\* the texts a caller's fallback function produces in a direct call
FallbackTexts == {<<>>, <<" ", "f", "\n">>}

ReadHostFile(path, fallback) ==
    /\ op = "none"
    /\ op' = "readHostFile"
    /\ ret' = [path |-> path, fallback |-> fallback, out |-> readHostFile(path, fallback)]
    /\ UNCHANGED env

ReadHostFile2(path, fallback) ==
    /\ op = "none"
    /\ op' = "readHostFile2"
    /\ ret' = [path |-> path, fallback |-> fallback, out |-> readHostFile2(path, fallback)]
    /\ UNCHANGED env

GetHostCPUInfo ==
    /\ op = "none"
    /\ op' = "getHostCPUInfo"
    /\ ret' = getHostCPUInfo
    /\ UNCHANGED env

GetHostCPUInfo2 ==
    /\ op = "none"
    /\ op' = "getHostCPUInfo2"
    /\ ret' = getHostCPUInfo2
    /\ UNCHANGED env

GetHostMemory ==
    /\ op = "none"
    /\ op' = "getHostMemory"
    /\ ret' = getHostMemory
    /\ UNCHANGED env

GetHostMemory2 ==
    /\ op = "none"
    /\ op' = "getHostMemory2"
    /\ ret' = getHostMemory2
    /\ UNCHANGED env

GetHostCPUUsage ==
    /\ op = "none"
    /\ op' = "getHostCPUUsage"
    /\ ret' = getHostCPUUsage
    /\ UNCHANGED env

GetHostDiskUsage ==
    /\ op = "none"
    /\ op' = "getHostDiskUsage"
    /\ ret' = getHostDiskUsage
    /\ UNCHANGED env

GET ==
    /\ op = "none"
    /\ op' = "GET"
    /\ ret' = GETDocument
    /\ UNCHANGED env

-----------------------------------------------------------------------------
(* Calls of the os module that may throw a system error.                   *)

OsCalls == {"hostname", "uptime", "networkInterfaces"}

\* the outcome of an extractor: it returned val, or an exception left it
Returned(val) == [raised |-> FALSE, val |-> val]
Raised == [raised |-> TRUE, val |-> <<>>]

\* os.<name>(), which gives `value` unless the call throws
osCall(name, value) == IF name \in osFails THEN Raised ELSE Returned(value)

-----------------------------------------------------------------------------
(* Host name (two-tier route).                                             *)

HexChars == {"0", "1", "2", "3", "4", "5", "6", "7", "8", "9",
             "a", "b", "c", "d", "e", "f", "A", "B", "C", "D", "E", "F"}

\* isContainerId, wrong: the pattern is matched without the i flag
isContainerIdLowerCase(s) ==
    /\ Len(s) = 12
    /\ \A i \in 1..Len(s) : s[i] \in HexChars /\ toLowerCase(<<s[i]>>) = <<s[i]>>

\* hostname.match(/^[0-9a-f]{12}$/i)
isContainerId(s) ==
    /\ Len(s) = 12
    /\ \A i \in 1..Len(s) : s[i] \in HexChars

\* getHostHostname; the fallback of readHostFile is os.hostname(), called at
\* line 341 outside every try block
getHostHostname ==
    LET r == readHostFile2("/etc/hostname", osHostname)
        hostname == r.val
    IN IF r.fallbackCalls = 1 /\ "hostname" \in osFails THEN Raised
       ELSE IF Len(hostname) > 0
            THEN IF isContainerId(hostname)
                 THEN osCall("hostname", osHostname)
                 ELSE Returned(hostname)
            ELSE osCall("hostname", osHostname)

GetHostHostname ==
    /\ op = "none"
    /\ op' = "getHostHostname"
    /\ ret' = getHostHostname
    /\ UNCHANGED env

-----------------------------------------------------------------------------
(* The machine of createTempUsers.sh, at rest.                             *)

\* the users of DEVOPS_USERS that the model follows
UserNames == {<<"d", "e", "v", "o", "p", "s", "-", "u", "s", "e", "r", "-", "0", "1">>, <<"d", "e", "v", "o", "p", "s", "-", "u", "s", "e", "r", "-", "0", "2">>}

\* no account of that name; `since` is the hour of the useradd of an account
NoAccount == [exists |-> FALSE, since |-> 0]

\* no run of the script in progress
Idle == [pc |-> "idle", todo |-> <<>>, runs |-> 0, issued |-> 0]

\* the machine on which the script never ran
NoScript ==
    /\ accounts = [u \in UserNames |-> NoAccount]
    /\ atQueue = {}
    /\ clock = 0
    /\ script = Idle

-----------------------------------------------------------------------------
(* The process's own readings, when they play no part.                     *)

kWeb01 == <<"w", "e", "b", "-", "0", "1">>
kLinux == <<"L", "i", "n", "u", "x">>
kX64 == <<"x", "6", "4">>
kRelease == <<"6", ".", "1", ".", "0">>

\* an interface address of os.networkInterfaces()
Addr(family, internal, address) ==
    [family |-> family, internal |-> internal, address |-> address]

kLoopback == <<<<"l", "o">>, <<Addr("IPv4", TRUE, <<"1", "2", "7", ".", "0", ".", "0", ".", "1">>)>>>>
kEth0 == <<<<"e", "t", "h", "0">>, <<Addr("IPv6", FALSE, <<"f", "e", "8", "0", ":", ":", "1">>), Addr("IPv4", FALSE, <<"1", "7", "2", ".", "1", "7", ".", "0", ".", "2">>)>>>>

OsDefaults ==
    /\ osHostname = kWeb01
    /\ osRelease = kRelease
    /\ osType = kLinux
    /\ osArch = kX64
    /\ osUptime = Num(60)
    /\ osInterfaces = <<kLoopback, kEth0>>
    /\ osFails = {}

-----------------------------------------------------------------------------
(* Environments.                                                           *)

\* A filesystem is consistent when a path under a tested directory exists
\* only if the directory does.
Consistent(f) ==
    /\ \A p \in Paths : f[PROC1_ROOT \o p].st # "missing" => f[PROC1_ROOT].st # "missing"
    /\ \A p \in Paths : f[HOST_ROOT \o p].st # "missing" => f[HOST_ROOT \o "/proc"].st # "missing"

NodeOf(present) == IF present THEN Dir ELSE Missing

\* the filesystem in which `path` has the three candidates c1, c2, c3
FsWith(path, c1, c2, c3, root, hproc, hsys, hetc) ==
    [p \in AllPaths |->
        IF p = PROC1_ROOT THEN NodeOf(root)
        ELSE IF p = HOST_ROOT \o "/proc" THEN NodeOf(hproc)
        ELSE IF p = HOST_ROOT \o "/sys" THEN NodeOf(hsys)
        ELSE IF p = HOST_ROOT \o "/etc" THEN NodeOf(hetc)
        ELSE IF p = PROC1_ROOT \o path THEN c1
        ELSE IF p = HOST_ROOT \o path THEN c2
        ELSE IF p = path THEN c3
        ELSE Missing]

\* the filesystem in which each document of docs (path -> text) is a regular
\* file at candidate `tier` of its path (nowhere when tier is 0), with the
\* directories that tier needs
FsDocsAt(docs, tier, root, mounted) ==
    LET at(q) == CASE tier = 1 -> PROC1_ROOT \o q
                   [] tier = 2 -> HOST_ROOT \o q
                   [] OTHER -> q
    IN [p \in AllPaths |->
           IF p = PROC1_ROOT THEN NodeOf(root \/ tier = 1)
           ELSE IF p \in Dirs THEN NodeOf(mounted \/ tier = 2)
           ELSE IF tier # 0 /\ \E q \in DOMAIN docs : p = at(q)
                THEN File(docs[CHOOSE q \in DOMAIN docs : p = at(q)])
           ELSE Missing]

NoStatfs == [r \in RootPaths |-> <<StatfsThrows, StatfsThrows>>]

\* halves of a load average
Half(h) == Rat(h, 2)

LoadavgOf(h) == <<Half(h), Half(1), Half(1)>>

\* os.cpus() of n CPUs of model m
CpusOf(n, m) == [i \in 1..n |-> m]

CpuModels == {<<>>, <<"Z", "8", "0">>}

OsCpusSet == {CpusOf(n, m) : n \in 0..MaxOsCpus, m \in CpuModels}

\* contents of a candidate file in a direct call of readHostFile
ReadTexts == {<<>>, <<" ", "\n">>, <<"a">>, <<" ", "b", "\n">>, <<"c", " ", "c", "\t">>}

Candidates == {Missing, Dir, StatErr, ReadErr} \cup {File(t) : t \in ReadTexts}

\* the path whose candidates vary in SpecRead
ReadPath == "/proc/stat"

InitRead ==
    /\ \E c1, c2, c3 \in Candidates, root, hproc, hsys, hetc \in BOOLEAN :
          /\ fsys = FsWith(ReadPath, c1, c2, c3, root, hproc, hsys, hetc)
          /\ Consistent(fsys)
    /\ statfsQ = NoStatfs
    /\ osCpus = CpusOf(1, <<"Z", "8", "0">>)
    /\ osTotalmem = 4096
    /\ osFreemem = 1024
    /\ osLoadavg = LoadavgOf(1)
    /\ OsDefaults
    /\ NoScript
    /\ op = "none"
    /\ ret = <<>>

NextRead ==
    \/ \E p \in Paths, fb \in FallbackTexts : ReadHostFile(p, fb)
    \/ \E p \in Paths, fb \in FallbackTexts : ReadHostFile2(p, fb)

\* direct calls of readHostFile over every combination of the three candidates
SpecRead == InitRead /\ [][NextRead]_vars

-----------------------------------------------------------------------------
(* Memory documents.                                                       *)

kBuffers == <<"B", "u", "f", "f", "e", "r", "s", ":", " ", "7", " ", "k", "B">>

\* `<label>: <v> kB`
MemLine(label, v) == label \o kColonSp \o toString(v) \o kKB

\* the kB figures of the generated lines
KBFigures == 0..MaxKB

\* a meminfo document in the kernel's order: MemTotal, MemFree, MemAvailable,
\* each present or not (a negative figure: no such line), then a Buffers line
MemDocOf(t, f, a) ==
    joinLines(
        (IF t >= 0 THEN <<MemLine(kMemTotal, t)>> ELSE <<>>)
        \o (IF f >= 0 THEN <<MemLine(kMemFree, f)>> ELSE <<>>)
        \o (IF a >= 0 THEN <<MemLine(kMemAvailable, a)>> ELSE <<>>)
        \o <<kBuffers>>)

MemDocs ==
    {MemDocOf(t, f, a) : t, f, a \in {-1} \cup KBFigures}
    \cup {MemDocOf(1048576, -1, 524288)}

InitMem ==
    /\ \E doc \in MemDocs, tier \in 0..3 :
          fsys = FsDocsAt([p \in {"/proc/meminfo"} |-> doc], tier, FALSE, FALSE)
    /\ statfsQ = NoStatfs
    /\ osCpus = CpusOf(1, <<"Z", "8", "0">>)
    /\ osTotalmem \in {4096, 5000}
    /\ osFreemem \in {1024, 2500}
    /\ osLoadavg = LoadavgOf(1)
    /\ OsDefaults
    /\ NoScript
    /\ op = "none"
    /\ ret = <<>>

NextMem == GetHostMemory \/ GetHostMemory2 \/ GET

\* the memory extractors and the snapshot over generated meminfo documents
SpecMem == InitMem /\ [][NextMem]_vars

-----------------------------------------------------------------------------
(* CPU-info documents.                                                     *)

CpuSummaryLine(n) == <<"C", "P", "U", "(", "s", ")", ":", " ">> \o toString(n)

CpuInfoLines ==
    {<<"m", "o", "d", "e", "l", " ", "n", "a", "m", "e", "\t", ":", " ", "Z", "8", "0">>,
     <<"m", "o", "d", "e", "l", " ", "n", "a", "m", "e", "\t", ":">>,
     <<"p", "r", "o", "c", "e", "s", "s", "o", "r", "\t", ":", " ", "0">>,
     <<"p", "r", "o", "c", "e", "s", "s", "o", "r", " ", "1">>,
     <<"H", "a", "r", "d", "w", "a", "r", "e", "\t", ":", " ", "B", "C", "M">>,
     <<"f", "l", "a", "g", "s", "\t", ":", " ", "l", "m">>}
    \cup {CpuSummaryLine(n) : n \in 0..MaxCpuN}

\* the documents of at most MaxDocLines lines
CpuInfoDocs ==
    UNION {{joinLines(ls) : ls \in [1..n -> CpuInfoLines]} : n \in 0..MaxDocLines}

InitCpuInfo ==
    /\ \E doc \in CpuInfoDocs, tier \in 0..3 :
          fsys = FsDocsAt([p \in {"/proc/cpuinfo"} |-> doc], tier, FALSE, FALSE)
    /\ statfsQ = NoStatfs
    /\ osCpus \in OsCpusSet
    /\ osTotalmem = 4096
    /\ osFreemem = 1024
    /\ osLoadavg = LoadavgOf(1)
    /\ OsDefaults
    /\ NoScript
    /\ op = "none"
    /\ ret = <<>>

NextCpuInfo == GetHostCPUInfo \/ GetHostCPUInfo2

\* the CPU identity extractors over generated cpuinfo documents
SpecCpuInfo == InitCpuInfo /\ [][NextCpuInfo]_vars

-----------------------------------------------------------------------------
(* /proc/stat documents.                                                   *)

kCpu0Line == <<"c", "p", "u", "0", " ", "9", " ", "9", " ", "9", " ", "9">>
kIntrLine == <<"i", "n", "t", "r", " ", "9">>

\* the counters of the example of the specification
ExampleCounters == <<100, 0, 50, 800, 50, 0, 0, 0>>

\* the full width of the aggregate cpu line
NCounters == 8

\* vectors of n counters of which at most two are not 0
CounterVecs(n) ==
    {v \in [1..n -> 0..MaxTick] : Cardinality({i \in 1..n : v[i] # 0}) <= 2}

RECURSIVE joinCounters(_)
joinCounters(v) ==
    IF v = <<>> THEN <<>>
    ELSE <<" ">> \o toString(Head(v)) \o joinCounters(Tail(v))

\* `cpu  <c1> <c2> ...`, with the kernel's two blanks after "cpu"
CpuLine(v) == <<"c", "p", "u", " ">> \o joinCounters(v)

\* the aggregate line first, a per-CPU line after it
StatDocOf(v) == joinLines(<<CpuLine(v), kCpu0Line>>)

StatDocs ==
    {StatDocOf(v) : v \in UNION {CounterVecs(n) : n \in 1..NCounters}}
    \cup {StatDocOf(ExampleCounters)}
    \cup {joinLines(<<kIntrLine, kCpu0Line>>)}

\* cpuinfo documents that decide the count of the load-average fallback
FallbackCpuInfoDocs == {<<>>, CpuSummaryLine(MaxCpuN)}

InitCpuUsage ==
    /\ \E stat \in StatDocs, info \in FallbackCpuInfoDocs, tier \in {0, 3} :
          fsys = FsDocsAt([p \in {"/proc/stat", "/proc/cpuinfo"} |->
                              IF p = "/proc/stat" THEN stat ELSE info],
                          tier, FALSE, FALSE)
    /\ statfsQ = NoStatfs
    /\ osCpus \in {CpusOf(n, <<"Z", "8", "0">>) : n \in 0..MaxOsCpus}
    /\ osTotalmem = 4096
    /\ osFreemem = 1024
    /\ \E h \in 0..MaxLoadHalves : osLoadavg = LoadavgOf(h)
    /\ OsDefaults
    /\ NoScript
    /\ op = "none"
    /\ ret = <<>>

NextCpuUsage == GetHostCPUUsage \/ GetHostCPUInfo

\* getHostCPUUsage over generated /proc/stat documents
SpecCpuUsage == InitCpuUsage /\ [][NextCpuUsage]_vars

-----------------------------------------------------------------------------
(* The whole route.                                                        *)

\* the documents of the three logical files, together
SnapshotDocs ==
    {[p \in Paths |->
        CASE p = "/proc/meminfo" -> MemDocOf(MaxKB, 1, 2)
          [] p = "/proc/cpuinfo" -> CpuSummaryLine(MaxCpuN)
          [] OTHER -> StatDocOf(ExampleCounters)],
     [p \in Paths |->
        CASE p = "/proc/meminfo" -> MemDocOf(MaxKB, 1, -1)
          [] p = "/proc/cpuinfo" -> <<"p", "r", "o", "c", "e", "s", "s", "o", "r", "\t", ":", " ", "0">>
          [] OTHER -> StatDocOf(<<1, 0, MaxTick>>)],
     [p \in Paths |->
        CASE p = "/proc/meminfo" -> <<" ", "\n">>
          [] p = "/proc/cpuinfo" -> <<>>
          [] OTHER -> StatDocOf(<<0, 0, 0, 0, 0, 0, 0, 0>>)]}

\* where the documents are: <<tier, /proc/1/root exists, /host is mounted>>
Placements ==
    {<<0, FALSE, FALSE>>, <<0, TRUE, TRUE>>, <<1, TRUE, FALSE>>,
     <<2, FALSE, TRUE>>, <<3, FALSE, FALSE>>, <<3, TRUE, TRUE>>}

StatfsOutcomes ==
    {StatfsThrows} \cup {Statfs(b, a, 4096) : b, a \in 0..MaxBlocks}

Init ==
    /\ \E docs \in SnapshotDocs, pl \in Placements :
          fsys = FsDocsAt(docs, pl[1], pl[2], pl[3])
    /\ \E q1 \in StatfsOutcomes, q2 \in StatfsOutcomes :
          \* the two queries see the same filesystem; each may fail on its own
          /\ q1 = StatfsThrows \/ q2 \in {StatfsThrows, q1}
          /\ statfsQ = [r \in RootPaths |->
                           IF r = "/" \/ existsSync(PROC1_ROOT)
                           THEN <<q1, q2>>
                           ELSE <<StatfsThrows, StatfsThrows>>]
    /\ osCpus \in {CpusOf(n, <<"Z", "8", "0">>) : n \in 0..MaxOsCpus}
    /\ osTotalmem = 5000
    /\ osFreemem = 2500
    /\ \E h \in 0..MaxLoadHalves : osLoadavg = LoadavgOf(h)
    /\ OsDefaults
    /\ NoScript
    /\ op = "none"
    /\ ret = <<>>

Next ==
    \/ \E p \in Paths, fb \in FallbackTexts : ReadHostFile(p, fb)
    \/ \E p \in Paths, fb \in FallbackTexts : ReadHostFile2(p, fb)
    \/ GetHostCPUInfo
    \/ GetHostCPUInfo2
    \/ GetHostMemory
    \/ GetHostMemory2
    \/ GetHostCPUUsage
    \/ GetHostDiskUsage
    \/ GET

Spec == Init /\ [][Next]_vars

-----------------------------------------------------------------------------
(* Source selection: readHostFile.                                         *)

\* the candidate of `path` at tier 1, 2 or 3
CandidatePath(tier, path) ==
    CASE tier = 1 -> PROC1_ROOT \o path
      [] tier = 2 -> HOST_ROOT \o path
      [] OTHER -> path

\* A candidate is eligible when it is a readable regular file that is not
\* empty after trimming; the /host candidate also needs the three markers.
Eligible(tier, path) ==
    /\ fsys[CandidatePath(tier, path)].st = "file"
    /\ trim(fsys[CandidatePath(tier, path)].data) # <<>>
    /\ tier = 2 => \A d \in {"/proc", "/sys", "/etc"} : fsys[HOST_ROOT \o d].st # "missing"

\* C1: a call of the three-tier readHostFile returns the trimmed content of
\* the first eligible candidate in the order /proc/1/root<path>, /host<path>,
\* <path>; a later candidate is never used while an earlier one is eligible.
C1_HighestPriorityEligible ==
    op = "readHostFile" =>
        \A k \in 1..3 :
            (Eligible(k, ret.path) /\ \A j \in 1..(k - 1) : ~Eligible(j, ret.path))
            => /\ ret.out.tier = k
               /\ ret.out.val = trim(fsys[CandidatePath(k, ret.path)].data)

\* C1's case: the /host candidate and the container's file are both eligible
\* with different contents, the /proc/1/root candidate is not, and /host won.
C1_Witness ==
    /\ op = "readHostFile"
    /\ ~Eligible(1, ret.path) /\ Eligible(2, ret.path) /\ Eligible(3, ret.path)
    /\ trim(fsys[HOST_ROOT \o ret.path].data) # trim(fsys[ret.path].data)
    /\ ret.out.tier = 2

\* C2: a call of readHostFile never raises; it returns the trimmed, non-empty
\* text of a candidate without calling the fallback, or, when no candidate is
\* eligible, calls the fallback once and returns exactly what it produced.
C2_NeverRaises ==
    op = "readHostFile" =>
        /\ ~ret.out.raised
        /\ \/ /\ ret.out.tier \in 1..3
              /\ ret.out.fallbackCalls = 0
              /\ ret.out.val # <<>>
              /\ ret.out.val = trim(fsys[CandidatePath(ret.out.tier, ret.path)].data)
              /\ ret.out.val[1] \notin WhiteSpace
              /\ ret.out.val[Len(ret.out.val)] \notin WhiteSpace
           \/ /\ ret.out.tier = 0
              /\ ret.out.fallbackCalls = 1
              /\ ret.out.val = ret.fallback
              /\ \A k \in 1..3 : ~Eligible(k, ret.path)

\* C2's case: stat fails at /proc/1/root<path>, the read fails at /host<path>
\* of a mounted host, the container's file is whitespace, and the fallback's
\* untrimmed text came back.
C2_Witness ==
    /\ op = "readHostFile"
    /\ fsys[PROC1_ROOT \o ret.path].st = "staterr"
    /\ isHostMounted /\ fsys[HOST_ROOT \o ret.path].st = "readerr"
    /\ fsys[ret.path].st = "file" /\ fsys[ret.path].data # <<>>
    /\ ret.fallback # trim(ret.fallback)
    /\ ret.out.val = ret.fallback
    /\ ret.out.fallbackCalls = 1

-----------------------------------------------------------------------------
(* Memory.                                                                 *)

\* the document the three-tier readHostFile reads for `path`: the trimmed text
\* of the first eligible candidate, <<>> when there is none
DocumentRead(path) ==
    IF \E k \in 1..3 : Eligible(k, path)
    THEN trim(fsys[CandidatePath(
             CHOOSE k \in 1..3 : Eligible(k, path) /\ \A j \in 1..(k - 1) : ~Eligible(j, path),
             path)].data)
    ELSE <<>>

\* the document has the line `line`
HasLine(doc, line) == \E i \in 1..Len(splitLines(doc)) : splitLines(doc)[i] = line

\* the document has a line that starts with `label`
HasLabel(doc, label) ==
    \E i \in 1..Len(splitLines(doc)) : startsWith(splitLines(doc)[i], label)

\* the kB figures the memory claims are checked for
ClaimKB == KBFigures \cup {1048576, 524288}

\* C4: when the meminfo document read has the lines `MemTotal: T kB` and
\* `MemAvailable: A kB`, the snapshot reports total = T*1024,
\* available = A*1024 and used = (T - A)*1024.
C4_MemoryBytes ==
    op = "GET" =>
        \A t, a \in ClaimKB :
            (/\ HasLine(DocumentRead("/proc/meminfo"), MemLine(kMemTotal, t))
             /\ HasLine(DocumentRead("/proc/meminfo"), MemLine(kMemAvailable, a)))
            => /\ ret.memory.total = t * 1024
               /\ ret.memory.available = a * 1024
               /\ ret.memory.used = (t - a) * 1024

\* C4's case: the example of the specification, read from a file.
C4_Witness ==
    /\ op = "GET"
    /\ HasLine(DocumentRead("/proc/meminfo"), MemLine(kMemTotal, 1048576))
    /\ HasLine(DocumentRead("/proc/meminfo"), MemLine(kMemAvailable, 524288))
    /\ ret.memory.total = 1073741824
    /\ ret.memory.available = 536870912
    /\ ret.memory.used = 536870912

\* C5: when the meminfo document read has a MemFree line and no MemAvailable
\* line, the available memory of the snapshot is the MemFree figure times
\* 1024 and used is total minus that value.
C5_AvailableFromMemFree ==
    op = "GET" =>
        \A f \in ClaimKB :
            (/\ HasLine(DocumentRead("/proc/meminfo"), MemLine(kMemFree, f))
             /\ ~HasLabel(DocumentRead("/proc/meminfo"), kMemAvailable))
            => /\ ret.memory.available = f * 1024
               /\ ret.memory.used = ret.memory.total - f * 1024

-----------------------------------------------------------------------------
(* CPU utilization.                                                        *)

\* every aggregate line the generator writes, with the counters it carries
VecLines ==
    {<<CpuLine(v), v>> : v \in UNION {CounterVecs(n) : n \in 1..NCounters}}
    \cup {<<CpuLine(ExampleCounters), ExampleCounters>>}

\* the counters of the aggregate cpu line of the document, <<>> when the
\* document has no such line (or nothing was read)
StatCounters(doc) ==
    LET lines == splitLines(doc)
        found == {pr \in VecLines : \E i \in 1..Len(lines) : lines[i] = pr[1]}
    IN IF found = {} THEN <<>> ELSE (CHOOSE pr \in found : TRUE)[2]

RECURSIVE SumOf(_)
SumOf(v) == IF v = <<>> THEN 0 ELSE Head(v) + SumOf(Tail(v))

\* the i-th counter, 0 when the line does not carry it
CounterAt(v, i) == IF i <= Len(v) THEN v[i] ELSE 0

\* user + nice + system + irq + softirq + steal of the counters v
BusyOf(v) ==
    CounterAt(v, 1) + CounterAt(v, 2) + CounterAt(v, 3)
    + CounterAt(v, 6) + CounterAt(v, 7) + CounterAt(v, 8)

\* C6: for an aggregate cpu line of eight counters with a positive sum,
\* getHostCPUUsage returns (user+nice+system+irq+softirq+steal) / (the sum
\* of the eight) * 100.
C6_CounterFormula ==
    op = "getHostCPUUsage" =>
        LET v == StatCounters(DocumentRead("/proc/stat"))
        IN (Len(v) = NCounters /\ SumOf(v) > 0)
           => ret.usage = Rat(BusyOf(v) * 100, SumOf(v))

\* C6's case: `cpu 100 0 50 800 50 0 0 0` gives 15.
C6_Witness ==
    /\ op = "getHostCPUUsage"
    /\ StatCounters(DocumentRead("/proc/stat")) = ExampleCounters
    /\ ret.usage = Num(15)

\* C7: getHostCPUUsage uses the load average exactly when the document has no
\* aggregate cpu line (or is unreadable) or the sum of its counters is zero;
\* in every other case the counter formula is used and the load average is
\* not read.
C7_FallbackOnlyWithoutLineOrZeroSum ==
    op = "getHostCPUUsage" =>
        LET v == StatCounters(DocumentRead("/proc/stat"))
        IN ret.loadavgRead <=> (v = <<>> \/ SumOf(v) = 0)

\* What lines 189-217 do: the load average is used exactly when the document
\* has no aggregate cpu line (or is unreadable), or the line carries fewer
\* than four counters (parts.length < 5), or the sum of its counters is zero;
\* the result is then min(load_1min / count * 100, 100) with the count of
\* getHostCPUInfo, and in every other case the counter formula, without
\* reading the load average.
FallbackExactlyWhenCoded ==
    op = "getHostCPUUsage" =>
        LET v == StatCounters(DocumentRead("/proc/stat"))
            fallback == v = <<>> \/ Len(v) < 4 \/ SumOf(v) = 0
        IN /\ ret.loadavgRead <=> fallback
           /\ fallback =>
                ret.usage = MathMin(Times100(Div(osLoadavg[1], Num(getHostCPUInfo.count))),
                                    Num(100))
           /\ ~fallback => ret.usage = Rat(BusyOf(v) * 100, SumOf(v))

\* The short line: three counters with a positive sum, a load average above
\* the CPU count, and the capped fallback as the result.
ShortLineFallsBack ==
    /\ op = "getHostCPUUsage"
    /\ Len(StatCounters(DocumentRead("/proc/stat"))) = 3
    /\ SumOf(StatCounters(DocumentRead("/proc/stat"))) > 0
    /\ getHostCPUInfo.count = 1
    /\ Leq(Num(1), osLoadavg[1]) /\ osLoadavg[1] # Num(1)
    /\ ret.loadavgRead
    /\ ret.usage = Num(100)

-----------------------------------------------------------------------------
(* The snapshot.                                                           *)

\* no candidate of any logical file is readable
NoSourceReadable == \A p \in Paths : \A k \in 1..3 : ~Eligible(k, p)

\* none of /host/proc, /host/sys, /host/etc exists
NoHostMarkers == \A d \in {"/proc", "/sys", "/etc"} : fsys[HOST_ROOT \o d].st = "missing"

\* C3: when no candidate is readable and the /host markers are absent, GET
\* answers with a success document whose numeric fields are all finite
\* numbers, with cpu.count >= 1, the memory figures of the process's own
\* readings and hostMounted false, whatever os.cpus() returns.
C3_CompleteSnapshotFromFallbacks ==
    (op = "GET" /\ NoSourceReadable /\ NoHostMarkers) =>
        /\ ret.status = 200
        /\ ret.hostMounted = FALSE
        /\ ret.cpu.count >= 1
        /\ IsFinite(ret.cpu.usage)
        /\ IsFinite(ret.disk.usage)
        /\ ret.memory.total = (osTotalmem \div 1024) * 1024
        /\ ret.memory.available = (osFreemem \div 1024) * 1024
        /\ ret.memory.free = (osFreemem \div 1024) * 1024
        /\ ret.memory.used = ret.memory.total - ret.memory.available

\* C8: in every success document both percentages, cpu.usage and
\* disk.usage, are numbers within [0, 100].
C8_PercentagesInRange ==
    (op = "GET" /\ ret.status = 200) =>
        /\ InPercentRange(ret.cpu.usage)
        /\ InPercentRange(ret.disk.usage)

-----------------------------------------------------------------------------
(* CPU identity and count.                                                 *)

\* the document the two-tier readHostFile reads for `path`
DocumentRead2(path) ==
    IF Eligible(2, path) THEN trim(fsys[HOST_ROOT \o path].data)
    ELSE IF Eligible(3, path) THEN trim(fsys[path].data)
    ELSE <<>>

\* the CPU-info document of the call that ran
CpuInfoRead ==
    IF op = "getHostCPUInfo" THEN DocumentRead("/proc/cpuinfo")
    ELSE DocumentRead2("/proc/cpuinfo")

\* the lines of the generator that carry a model field
ModelFieldLines == {<<"m", "o", "d", "e", "l", " ", "n", "a", "m", "e", "\t", ":", " ", "Z", "8", "0">>, <<"m", "o", "d", "e", "l", " ", "n", "a", "m", "e", "\t", ":">>, <<"H", "a", "r", "d", "w", "a", "r", "e", "\t", ":", " ", "B", "C", "M">>}

\* the processor-entry lines of the generator
ProcessorEntryLines == {<<"p", "r", "o", "c", "e", "s", "s", "o", "r", "\t", ":", " ", "0">>, <<"p", "r", "o", "c", "e", "s", "s", "o", "r", " ", "1">>}

\* the number of processor-entry lines of the document
ProcessorEntries(doc) ==
    Cardinality({i \in 1..Len(splitLines(doc)) : splitLines(doc)[i] \in ProcessorEntryLines})

\* the first `CPU(s): N` line of the document is the one of N
FirstSummaryIs(doc, n) ==
    \E i \in 1..Len(splitLines(doc)) :
        /\ splitLines(doc)[i] = CpuSummaryLine(n)
        /\ \A k \in 1..(i - 1) : \A m \in 0..MaxCpuN : splitLines(doc)[k] # CpuSummaryLine(m)

\* C9: getHostCPUInfo (either route) returns a count of at least 1 and a
\* non-empty model, "Unknown" when the document read has no model field,
\* for every document and every os.cpus(), the empty list included.
C9_CountAtLeastOne ==
    op \in {"getHostCPUInfo", "getHostCPUInfo2"} =>
        /\ ret.count >= 1
        /\ ret.model # <<>>
        /\ (/\ CpuInfoRead # <<>>
            /\ \A l \in ModelFieldLines : ~HasLine(CpuInfoRead, l))
           => ret.model = kUnknown

\* C10: with no processor-entry line and a `CPU(s): N` line (N >= 1),
\* getHostCPUInfo (either route) returns count = N; with processor-entry
\* lines, their number.  (os.cpus() is not empty here, so that the zero
\* count of C9 plays no part.)
C10_SummaryLineCount ==
    (/\ op \in {"getHostCPUInfo", "getHostCPUInfo2"}
     /\ CpuInfoRead # <<>>
     /\ Len(osCpus) >= 1) =>
        /\ ProcessorEntries(CpuInfoRead) > 0 => ret.count = ProcessorEntries(CpuInfoRead)
        /\ ProcessorEntries(CpuInfoRead) = 0 =>
              \A n \in 1..MaxCpuN : FirstSummaryIs(CpuInfoRead, n) => ret.count = n

\* The three-tier route alone does what C10 says for N >= 1, whatever
\* os.cpus() is.
ThreeTierSummaryLineCount ==
    (op = "getHostCPUInfo" /\ CpuInfoRead # <<>>) =>
        /\ ProcessorEntries(CpuInfoRead) > 0 => ret.count = ProcessorEntries(CpuInfoRead)
        /\ ProcessorEntries(CpuInfoRead) = 0 =>
              \A n \in 1..MaxCpuN : FirstSummaryIs(CpuInfoRead, n) => ret.count = n

-----------------------------------------------------------------------------
(* Failure of the block-statistics query.                                  *)

\* a statfs query of the call failed
StatfsQueryFailed == \E k \in 1..2 : statfsSync(rootPath, k).throws

\* C11: when the block-statistics query fails during a snapshot, GET still
\* answers with a success document, and that document has disk.usage = 0
\* together with disk.total = disk.used = disk.free = 0: never a zero usage
\* of a failure beside non-zero totals, nor zero totals of a failure beside
\* a non-zero usage.
C11_DiskFailureZeroes ==
    (op = "GET" /\ StatfsQueryFailed) =>
        /\ ret.status = 200
        /\ ret.disk.usage = Num(0)
        /\ ret.disk.total = 0
        /\ ret.disk.used = 0
        /\ ret.disk.free = 0

-----------------------------------------------------------------------------
(* Host name.                                                              *)

kContainerId == <<"a", "1", "b", "2", "c", "3", "d", "4", "e", "5", "f", "6">>
kContainerIdUpper == <<"A", "1", "B", "2", "C", "3", "D", "4", "E", "5", "F", "6">>

\* contents of the hostname file
HostnameDocs ==
    {kContainerId \o <<"\n">>,
     kContainerIdUpper,
     <<"a", "1", "B", "2", "c", "3", "D", "4", "e", "5", "F", "6", "\n">>,
     <<"a", "1", "b", "2", "c", "3", "d", "4", "e", "5", "f">>,
     <<"a", "1", "b", "2", "c", "3", "d", "4", "e", "5", "f", "6", "a">>,
     <<"a", "1", "b", "2", "c", "3", "d", "4", "e", "5", "g", "6">>,
     <<"a", "1", "b", "2", "c", "3", "d", "4", "e", "5", "f", "6", "\n", "w", "e", "b">>,
     <<"w", "e", "b", "-", "0", "1", "\n">>,
     <<" ", "\n">>,
     <<>>}

\* os.hostname(): a name, or the id of the container
OsHostnames == {kWeb01, <<"0", "1", "2", "3", "4", "5", "6", "7", "8", "9", "a", "b">>}

InitHostname ==
    /\ \E doc \in HostnameDocs, tier \in {0, 2, 3}, mounted \in BOOLEAN :
          fsys = FsDocsAt([p \in {"/etc/hostname"} |-> doc], tier, FALSE, mounted)
    /\ statfsQ = NoStatfs
    /\ osCpus = CpusOf(1, <<"Z", "8", "0">>)
    /\ osTotalmem = 4096
    /\ osFreemem = 1024
    /\ osLoadavg = LoadavgOf(1)
    /\ osHostname \in OsHostnames
    /\ osRelease = kRelease
    /\ osType = kLinux
    /\ osArch = kX64
    /\ osUptime = Num(60)
    /\ osInterfaces = <<kLoopback, kEth0>>
    /\ osFails \in {{}, {"hostname"}}
    /\ NoScript
    /\ op = "none"
    /\ ret = <<>>

NextHostname == GetHostHostname

\* getHostHostname over generated hostname files
SpecHostname == InitHostname /\ [][NextHostname]_vars

\* twelve characters, each a hexadecimal digit of either case
TwelveHex(s) ==
    /\ Len(s) = 12
    /\ \A i \in 1..12 :
          \/ IsDigit(s[i])
          \/ toLowerCase(<<s[i]>>)[1] \in {"a", "b", "c", "d", "e", "f"}

\* C12: when the trimmed content of the hostname file that was read is
\* exactly 12 hexadecimal characters, of either case, getHostHostname
\* returns os.hostname() instead; any other non-empty content is returned
\* verbatim.
C12_ContainerIdNotReturned ==
    (op = "getHostHostname" /\ "hostname" \notin osFails) =>
        LET doc == DocumentRead2("/etc/hostname")
        IN doc # <<>> =>
              /\ ~ret.raised
              /\ ret.val = IF TwelveHex(doc) THEN osHostname ELSE doc

\* C12's case: an upper-case container id in the file, the name of the
\* process returned.
C12_Witness ==
    /\ op = "getHostHostname"
    /\ DocumentRead2("/etc/hostname") = kContainerIdUpper
    /\ osHostname = kWeb01
    /\ ~ret.raised
    /\ ret.val = kWeb01

-----------------------------------------------------------------------------
(* Default gateway (two-tier route).                                       *)

kDefaultDestination == <<"0", "0", "0", "0", "0", "0", "0", "0">>
kNonDisponible == <<"N", "o", "n", " ", "d", "i", "s", "p", "o", "n", "i", "b", "l", "e">>
kNaNText == <<"N", "a", "N">>
kZeroAddress == <<"0", ".", "0", ".", "0", ".", "0">>

\* the value of a hexadecimal digit
HexVal(c) ==
    IF IsDigit(c) THEN DigitVal(c)
    ELSE CASE toLowerCase(<<c>>)[1] = "a" -> 10
           [] toLowerCase(<<c>>)[1] = "b" -> 11
           [] toLowerCase(<<c>>)[1] = "c" -> 12
           [] toLowerCase(<<c>>)[1] = "d" -> 13
           [] toLowerCase(<<c>>)[1] = "e" -> 14
           [] OTHER -> 15

\* the longest prefix of s made of hexadecimal digits
RECURSIVE TakeHex(_)
TakeHex(s) ==
    IF s = <<>> \/ Head(s) \notin HexChars THEN <<>>
    ELSE <<Head(s)>> \o TakeHex(Tail(s))

RECURSIVE hexValue(_)
hexValue(ds) ==
    IF ds = <<>> THEN 0
    ELSE hexValue(SubSeq(ds, 1, Len(ds) - 1)) * 16 + HexVal(ds[Len(ds)])

\* parseInt(s, 16) of a text without whitespace: an optional sign, an
\* optional 0x prefix, then the longest run of hexadecimal digits; NaN when
\* that run is empty
parseInt16(s) ==
    LET signed == s # <<>> /\ Head(s) \in {"+", "-"}
        body == IF signed THEN Tail(s) ELSE s
        prefixed == Len(body) >= 2 /\ body[1] = "0" /\ body[2] \in {"x", "X"}
        digits == TakeHex(IF prefixed THEN SubSeq(body, 3, Len(body)) ELSE body)
    IN IF digits = <<>> THEN [nan |-> TRUE, n |-> 0]
       ELSE [nan |-> FALSE,
             n |-> IF signed /\ Head(s) = "-" THEN 0 - hexValue(digits) ELSE hexValue(digits)]

\* String(x) of such a number, as Array.prototype.join writes it
numberText(x) ==
    IF x.nan THEN kNaNText
    ELSE IF x.n < 0 THEN <<"-">> \o toString(0 - x.n)
    ELSE toString(x.n)

\* gatewayOctets, wrong: the bytes are read in the order they are written
gatewayOctetsBigEndian(h) ==
    <<parseInt16(SubSeq(h, 1, 2)), parseInt16(SubSeq(h, 3, 4)),
      parseInt16(SubSeq(h, 5, 6)), parseInt16(SubSeq(h, 7, 8))>>

\* the four parseInt(gatewayHex.substring(..), 16) of lines 555-558
gatewayOctets(h) ==
    <<parseInt16(SubSeq(h, 7, 8)), parseInt16(SubSeq(h, 5, 6)),
      parseInt16(SubSeq(h, 3, 4)), parseInt16(SubSeq(h, 1, 2))>>

\* [..].join(".")
gatewayIp(h) ==
    LET o == gatewayOctets(h)
    IN numberText(o[1]) \o <<".">> \o numberText(o[2]) \o <<".">>
       \o numberText(o[3]) \o <<".">> \o numberText(o[4])

\* the loop of lines 549-566: the address of the first line that returns,
\* <<>> when the loop ends without a return
RECURSIVE routeScan(_)
routeScan(lines) ==
    IF lines = <<>> THEN <<>>
    ELSE LET parts == splitWs(trim(Head(lines)))
         IN IF /\ Len(parts) >= 3
               /\ parts[2] = kDefaultDestination
               /\ Len(parts[3]) = 8
               /\ gatewayIp(parts[3]) # kZeroAddress
            THEN gatewayIp(parts[3])
            ELSE routeScan(Tail(lines))

\* the first IPv4 address that is not internal among addrs, <<>> when none
RECURSIVE firstExternal(_)
firstExternal(addrs) ==
    IF addrs = <<>> THEN <<>>
    ELSE IF Head(addrs).family = "IPv4" /\ ~Head(addrs).internal
         THEN Head(addrs).address
         ELSE firstExternal(Tail(addrs))

\* the loops of lines 574-583 over the interfaces in the order of their keys
RECURSIVE interfaceScan(_)
interfaceScan(interfaces) ==
    IF interfaces = <<>> THEN <<>>
    ELSE IF firstExternal(Head(interfaces)[2]) # <<>>
         THEN firstExternal(Head(interfaces)[2])
         ELSE interfaceScan(Tail(interfaces))

\* getHostIP; os.networkInterfaces() is called at line 573, after the try block
getHostIP ==
    LET route == readHostFile2("/proc/net/route", <<>>).val
        ip == IF Len(route) > 0 THEN routeScan(splitLines(route)) ELSE <<>>
    IN IF ip # <<>> THEN Returned(ip)
       ELSE IF "networkInterfaces" \in osFails THEN Raised
       ELSE IF interfaceScan(osInterfaces) # <<>> THEN Returned(interfaceScan(osInterfaces))
       ELSE Returned(kNonDisponible)

GetHostIP ==
    /\ op = "none"
    /\ op' = "getHostIP"
    /\ ret' = getHostIP
    /\ UNCHANGED env

-----------------------------------------------------------------------------
(* Routing tables.                                                         *)

kRouteHeader == <<"I", "f", "a", "c", "e", "\t", "D", "e", "s", "t", "i", "n", "a", "t", "i", "o", "n", "\t", "G", "a", "t", "e", "w", "a", "y", "\t", "F", "l", "a", "g", "s">>
kRouteExample == <<"e", "t", "h", "0", "\t", "0", "0", "0", "0", "0", "0", "0", "0", "\t", "0", "2", "0", "2", "0", "0", "0", "A", "\t", "0", "0", "0", "3", "\t", "0", "\t", "0", "\t", "0", "\t", "0", "0", "0", "0", "0", "0", "0", "0">>

\* lines of a routing table: the header, the example of the specification,
\* a route of a subnet, a default route with a lower-case gateway, one with
\* a null gateway, with a gateway of seven characters, with a gateway of
\* eight characters that are not all hexadecimal, one cut after its
\* destination, a blank line
RouteLines ==
    {kRouteHeader,
     kRouteExample,
     <<"e", "t", "h", "0", "\t", "0", "0", "0", "2", "0", "0", "0", "A", "\t", "0", "1", "0", "2", "0", "0", "0", "A", "\t", "0", "0", "0", "1">>,
     <<" ", " ", "w", "l", "a", "n", "0", " ", "0", "0", "0", "0", "0", "0", "0", "0", " ", "f", "e", "0", "1", "a", "8", "c", "0", " ", "0", "0", "0", "3">>,
     <<"e", "t", "h", "1", "\t", "0", "0", "0", "0", "0", "0", "0", "0", "\t", "0", "0", "0", "0", "0", "0", "0", "0", "\t", "0", "0", "0", "1">>,
     <<"e", "t", "h", "2", "\t", "0", "0", "0", "0", "0", "0", "0", "0", "\t", "0", "2", "0", "2", "0", "0", "0", "\t", "0", "0", "0", "3">>,
     <<"e", "t", "h", "3", "\t", "0", "0", "0", "0", "0", "0", "0", "0", "\t", "Z", "Z", "0", "2", "0", "0", "0", "A", "\t", "0", "0", "0", "3">>,
     <<"e", "t", "h", "4", "\t", "0", "0", "0", "0", "0", "0", "0", "0">>,
     <<>>}

\* the tables of at most MaxDocLines lines
RouteDocs ==
    UNION {{joinLines(ls) : ls \in [1..n -> RouteLines]} : n \in 0..MaxDocLines}

\* os.networkInterfaces(): none, the loopback alone, an interface with
\* IPv6 addresses only, the loopback and an interface with an IPv4 address
InterfaceSets ==
    {<<>>,
     <<kLoopback>>,
     <<kLoopback, <<<<"e", "t", "h", "9">>, <<Addr("IPv6", FALSE, <<"f", "e", "8", "0", ":", ":", "9">>)>>>>>>,
     <<kLoopback, kEth0>>}

InitIP ==
    /\ \E doc \in RouteDocs, tier \in {0, 2, 3} :
          fsys = FsDocsAt([p \in {"/proc/net/route"} |-> doc], tier, FALSE, FALSE)
    /\ statfsQ = NoStatfs
    /\ osCpus = CpusOf(1, <<"Z", "8", "0">>)
    /\ osTotalmem = 4096
    /\ osFreemem = 1024
    /\ osLoadavg = LoadavgOf(1)
    /\ osHostname = kWeb01
    /\ osRelease = kRelease
    /\ osType = kLinux
    /\ osArch = kX64
    /\ osUptime = Num(60)
    /\ osInterfaces \in InterfaceSets
    /\ osFails \in {{}, {"networkInterfaces"}}
    /\ NoScript
    /\ op = "none"
    /\ ret = <<>>

NextIP == GetHostIP

\* getHostIP over generated routing tables
SpecIP == InitIP /\ [][NextIP]_vars

\* the lines of the routing table that was read
RouteLinesRead == splitLines(DocumentRead2("/proc/net/route"))

\* the whitespace-separated fields of a line
Fields(line) == splitWs(trim(line))

\* field 2 is "00000000"
IsDefaultRoute(line) ==
    Len(Fields(line)) >= 2 /\ Fields(line)[2] = kDefaultDestination

HexDigitsLower == <<"0", "1", "2", "3", "4", "5", "6", "7", "8", "9", "a", "b", "c", "d", "e", "f">>

IsHexDigit(c) == \E i \in 1..16 : HexDigitsLower[i] = toLowerCase(<<c>>)[1]

Nibble(c) == (CHOOSE i \in 1..16 : HexDigitsLower[i] = toLowerCase(<<c>>)[1]) - 1

\* eight hexadecimal digits
EightHex(h) == Len(h) = 8 /\ \A i \in 1..8 : IsHexDigit(h[i])

\* the byte of h written at offsets [i:i+2]
ByteAt(h, i) == Nibble(h[i + 1]) * 16 + Nibble(h[i + 2])

\* the address whose octets are the bytes at [6:8], [4:6], [2:4], [0:2]
Dotted(h) ==
    toString(ByteAt(h, 6)) \o <<".">> \o toString(ByteAt(h, 4)) \o <<".">>
    \o toString(ByteAt(h, 2)) \o <<".">> \o toString(ByteAt(h, 0))

\* line i is the first default-route line, and its field 3 is 8 hex digits
FirstDefaultRouteAt(i) ==
    /\ IsDefaultRoute(RouteLinesRead[i])
    /\ \A k \in 1..(i - 1) : ~IsDefaultRoute(RouteLinesRead[k])
    /\ Len(Fields(RouteLinesRead[i])) >= 3
    /\ EightHex(Fields(RouteLinesRead[i])[3])

\* C13 as stated: when field 3 of the first default-route line is an
\* 8-hex-digit value h, getHostIP returns the address whose octets are the
\* bytes of h at [6:8], [4:6], [2:4], [0:2].
C13_GatewayOfFirstDefaultRoute ==
    op = "getHostIP" =>
        \A i \in 1..Len(RouteLinesRead) :
            FirstDefaultRouteAt(i) =>
                /\ ~ret.raised
                /\ ret.val = Dotted(Fields(RouteLinesRead[i])[3])

\* C13: when field 3 of the first default-route line is an 8-hex-digit
\* value h other than 00000000, getHostIP returns the address whose octets
\* are the bytes of h at [6:8], [4:6], [2:4], [0:2].
C13_NonNullGatewayOfFirstDefaultRoute ==
    op = "getHostIP" =>
        \A i \in 1..Len(RouteLinesRead) :
            (FirstDefaultRouteAt(i) /\ Fields(RouteLinesRead[i])[3] # kDefaultDestination) =>
                /\ ~ret.raised
                /\ ret.val = Dotted(Fields(RouteLinesRead[i])[3])

\* C13's case: `eth0 00000000 0202000A 0003 ...` after the header gives 10.0.2.2.
C13_Witness ==
    /\ op = "getHostIP"
    /\ RouteLinesRead = <<kRouteHeader, kRouteExample>>
    /\ ~ret.raised
    /\ ret.val = <<"1", "0", ".", "0", ".", "2", ".", "2">>

\* a line that yields a gateway: a default route whose field 3 is eight
\* hexadecimal digits, not all zero
Yields(line) ==
    /\ IsDefaultRoute(line)
    /\ Len(Fields(line)) >= 3
    /\ EightHex(Fields(line)[3])
    /\ Fields(line)[3] # kDefaultDestination

\* the addresses of all interfaces, in order
RECURSIVE AllAddresses(_)
AllAddresses(interfaces) ==
    IF interfaces = <<>> THEN <<>>
    ELSE Head(interfaces)[2] \o AllAddresses(Tail(interfaces))

IsExternalIPv4(a) == a.family = "IPv4" /\ ~a.internal

\* the first non-internal IPv4 address of the process, or the sentinel
OwnAddress ==
    LET as == AllAddresses(osInterfaces)
    IN IF \E i \in 1..Len(as) : IsExternalIPv4(as[i])
       THEN as[CHOOSE i \in 1..Len(as) :
                   IsExternalIPv4(as[i]) /\ \A k \in 1..(i - 1) : ~IsExternalIPv4(as[k])].address
       ELSE kNonDisponible

\* four runs of digits separated by dots, each worth 0..255
IsDottedDecimal(t) ==
    LET octets == splitOn(t, {"."})
    IN /\ Len(octets) = 4
       /\ \A i \in 1..4 :
             /\ octets[i] # <<>>
             /\ \A k \in 1..Len(octets[i]) : IsDigit(octets[i][k])
             /\ parseInt(octets[i]) <= 255

\* C14: getHostIP skips every line that is not a default route with a
\* valid 8-hex-digit gateway and goes on with the following lines; when no
\* line yields a gateway, or the table is unreadable, it returns the first
\* non-internal IPv4 address of the process, or "Non disponible" when there
\* is none.  So the result is a dotted-decimal address of four octets in
\* 0..255, or the sentinel.
C14_SkipsUnparsedLines ==
    (op = "getHostIP" /\ "networkInterfaces" \notin osFails) =>
        /\ ~ret.raised
        /\ IF \E i \in 1..Len(RouteLinesRead) : Yields(RouteLinesRead[i])
           THEN LET i == CHOOSE j \in 1..Len(RouteLinesRead) :
                            /\ Yields(RouteLinesRead[j])
                            /\ \A k \in 1..(j - 1) : ~Yields(RouteLinesRead[k])
                IN ret.val = Dotted(Fields(RouteLinesRead[i])[3])
           ELSE ret.val = OwnAddress
        /\ ret.val = kNonDisponible \/ IsDottedDecimal(ret.val)

-----------------------------------------------------------------------------
(* Operating system (two-tier route).                                      *)

kLinuxkit == <<"l", "i", "n", "u", "x", "k", "i", "t">>
kLinuxVersion == <<"L", "i", "n", "u", "x", " ", "v", "e", "r", "s", "i", "o", "n", " ">>
kPrettyName == <<"P", "R", "E", "T", "T", "Y", "_", "N", "A", "M", "E">>
kPrettyNameEq == <<"P", "R", "E", "T", "T", "Y", "_", "N", "A", "M", "E", "=">>
kUbuntu == <<"U", "b", "u", "n", "t", "u">>
kUbuntuSp == <<"U", "b", "u", "n", "t", "u", " ">>

\* the longest prefix of s without whitespace
RECURSIVE TakeNonSpace(_)
TakeNonSpace(s) ==
    IF s = <<>> \/ Head(s) \in WhiteSpace THEN <<>>
    ELSE <<Head(s)>> \o TakeNonSpace(Tail(s))

\* the longest prefix of s without a double quote
RECURSIVE TakeUnquoted(_)
TakeUnquoted(s) ==
    IF s = <<>> \/ Head(s) = "\"" THEN <<>>
    ELSE <<Head(s)>> \o TakeUnquoted(Tail(s))

\* procVersion.match(/Linux version ([^\s]+)/): group 1 of the leftmost
\* match, <<>> when there is no match
RECURSIVE matchLinuxVersion(_)
matchLinuxVersion(s) ==
    IF Len(s) <= Len(kLinuxVersion) THEN <<>>
    ELSE IF /\ startsWith(s, kLinuxVersion)
            /\ s[Len(kLinuxVersion) + 1] \notin WhiteSpace
         THEN TakeNonSpace(SubSeq(s, Len(kLinuxVersion) + 1, Len(s)))
         ELSE matchLinuxVersion(Tail(s))

\* osRelease.match(/PRETTY_NAME="?([^"]+)"?/): group 1 of the leftmost
\* match, <<>> when there is no match
RECURSIVE matchPrettyName(_)
matchPrettyName(s) ==
    IF Len(s) <= Len(kPrettyNameEq) THEN <<>>
    ELSE LET rest == SubSeq(s, Len(kPrettyNameEq) + 1, Len(s))
             body == IF Head(rest) = "\"" THEN Tail(rest) ELSE rest
         IN IF startsWith(s, kPrettyNameEq) /\ TakeUnquoted(body) # <<>>
            THEN TakeUnquoted(body)
            ELSE matchPrettyName(Tail(s))

\* prettyName.match(/(\d+\.\d+)/): the leftmost digits, dot, digits
RECURSIVE matchMajorMinor(_)
matchMajorMinor(s) ==
    IF s = <<>> THEN <<>>
    ELSE LET major == TakeDigits(s)
             after == SubSeq(s, Len(major) + 1, Len(s))
         IN IF /\ major # <<>>
               /\ Len(after) >= 2
               /\ after[1] = "."
               /\ IsDigit(after[2])
            THEN major \o <<".">> \o TakeDigits(Tail(after))
            ELSE matchMajorMinor(Tail(s))

\* the release of lines 474-481
releaseOfPrettyName(prettyName) ==
    IF includes(prettyName, kUbuntu) /\ matchMajorMinor(prettyName) # <<>>
    THEN kUbuntuSp \o matchMajorMinor(prettyName)
    ELSE prettyName

getHostOS ==
    LET osReleaseDoc == readHostFile2("/etc/os-release", <<>>).val
        procVersion == readHostFile2("/proc/version", <<>>).val
        versionMatch == IF Len(procVersion) > 0 /\ ~includes(procVersion, kLinuxkit)
                        THEN matchLinuxVersion(procVersion)
                        ELSE <<>>
        prettyName == IF Len(osReleaseDoc) > 0 /\ includes(osReleaseDoc, kPrettyName)
                      THEN matchPrettyName(osReleaseDoc)
                      ELSE <<>>
        release1 == IF versionMatch # <<>> THEN versionMatch ELSE osRelease
        type1 == IF versionMatch # <<>> THEN kLinux ELSE osType
    IN IF prettyName # <<>>
       THEN [type |-> kLinux,
             release |-> IF Len(procVersion) = 0 \/ includes(procVersion, kLinuxkit)
                         THEN releaseOfPrettyName(prettyName)
                         ELSE release1]
       ELSE [type |-> type1, release |-> release1]

GetHostOS ==
    /\ op = "none"
    /\ op' = "getHostOS"
    /\ ret' = Returned(getHostOS)
    /\ UNCHANGED env

-----------------------------------------------------------------------------
(* Kernel version and os-release documents.                                *)

kKernelToken == <<"6", ".", "1", ".", "0", "-", "1", "3", "-", "a", "m", "d", "6", "4">>

VersionDocs ==
    {kLinuxVersion \o kKernelToken \o <<" ", "(", "g", "c", "c", " ", "1", "2", ")", "\n">>,
     <<"L", "i", "n", "u", "x", " ", "v", "e", "r", "s", "i", "o", "n", " ", "5", ".", "1", "5", ".", "4", "9", "-", "l", "i", "n", "u", "x", "k", "i", "t", " ", "(", "r", "o", "o", "t", ")">>,
     <<"L", "i", "n", "u", "x", " ", "v", "e", "r", "s", "i", "o", "n">>,
     <<"F", "r", "e", "e", "B", "S", "D", " ", "1", "3", ".", "2">>,
     <<>>}

OsReleaseDocs ==
    {<<"P", "R", "E", "T", "T", "Y", "_", "N", "A", "M", "E", "=", "\"", "U", "b", "u", "n", "t", "u", " ", "2", "2", ".", "0", "4", ".", "3", " ", "L", "T", "S", "\"", "\n", "I", "D", "=", "u", "b", "u", "n", "t", "u">>,
     <<"N", "A", "M", "E", "=", "\"", "D", "e", "b", "i", "a", "n", "\"", "\n", "P", "R", "E", "T", "T", "Y", "_", "N", "A", "M", "E", "=", "\"", "D", "e", "b", "i", "a", "n", " ", "G", "N", "U", "/", "L", "i", "n", "u", "x", " ", "1", "2", "\"">>,
     <<"P", "R", "E", "T", "T", "Y", "_", "N", "A", "M", "E", "=", "A", "l", "p", "i", "n", "e">>,
     <<"P", "R", "E", "T", "T", "Y", "_", "N", "A", "M", "E", "=", "\"", "\"">>,
     <<"I", "D", "=", "a", "l", "p", "i", "n", "e">>,
     <<>>}

InitOS ==
    /\ \E v \in VersionDocs, r \in OsReleaseDocs, tier \in {0, 2, 3} :
          fsys = FsDocsAt([p \in {"/proc/version", "/etc/os-release"} |->
                              IF p = "/proc/version" THEN v ELSE r],
                          tier, FALSE, FALSE)
    /\ statfsQ = NoStatfs
    /\ osCpus = CpusOf(1, <<"Z", "8", "0">>)
    /\ osTotalmem = 4096
    /\ osFreemem = 1024
    /\ osLoadavg = LoadavgOf(1)
    /\ osHostname = kWeb01
    /\ osRelease \in {kRelease, <<"2", "2", ".", "6", ".", "0">>}
    /\ osType \in {kLinux, <<"D", "a", "r", "w", "i", "n">>}
    /\ osArch = kX64
    /\ osUptime = Num(60)
    /\ osInterfaces = <<kLoopback, kEth0>>
    /\ osFails = {}
    /\ NoScript
    /\ op = "none"
    /\ ret = <<>>

NextOS == GetHostOS

\* getHostOS over generated kernel version and os-release documents
SpecOS == InitOS /\ [][NextOS]_vars

\* the kernel version document that was read has a `Linux version <token>`
\* and no linuxkit marker
KernelTokenUsable ==
    /\ matchLinuxVersion(DocumentRead2("/proc/version")) # <<>>
    /\ ~includes(DocumentRead2("/proc/version"), kLinuxkit)

\* the pretty name of the os-release document that was read, <<>> when none
PrettyNameRead == matchPrettyName(DocumentRead2("/etc/os-release"))

\* C15: release is the token of `Linux version <token>` when the kernel
\* version document has one and no linuxkit marker, even beside a pretty
\* name; in every other case where os-release has a PRETTY_NAME, release is
\* derived from the pretty name; the release of the process is used only
\* when neither is available.
C15_ReleaseChoice ==
    op = "getHostOS" =>
        /\ KernelTokenUsable =>
              ret.val.release = matchLinuxVersion(DocumentRead2("/proc/version"))
        /\ (~KernelTokenUsable /\ PrettyNameRead # <<>>) =>
              ret.val.release \in {PrettyNameRead,
                                   kUbuntuSp \o matchMajorMinor(PrettyNameRead)}
        /\ (~KernelTokenUsable /\ PrettyNameRead = <<>>) =>
              ret.val.release = osRelease

-----------------------------------------------------------------------------
(* Uptime, load average and architecture (two-tier route).                 *)

RECURSIVE Pow10(_)
Pow10(n) == IF n = 0 THEN 1 ELSE 10 * Pow10(n - 1)

\* the digits after the point of r/d, 0 <= r < d, for a d that divides a
\* power of ten
RECURSIVE fractionDigits(_, _)
fractionDigits(r, d) ==
    IF r = 0 THEN <<>>
    ELSE <<Digit[((r * 10) \div d) + 1]>> \o fractionDigits((r * 10) % d, d)

\* Number.prototype.toString of a finite number >= 0 with a finite decimal
\* expansion
decimalText(x) ==
    toString(x.n \div x.d)
    \o (IF x.n % x.d = 0 THEN <<>> ELSE <<".">> \o fractionDigits(x.n % x.d, x.d))

\* parseFloat of a text that starts with an unsigned decimal; NaN when it
\* starts with neither a digit nor a point and a digit
parseFloat(s) ==
    LET whole == TakeDigits(s)
        rest == SubSeq(s, Len(whole) + 1, Len(s))
        fraction == IF rest # <<>> /\ Head(rest) = "." THEN TakeDigits(Tail(rest)) ELSE <<>>
    IN IF whole = <<>> /\ fraction = <<>> THEN NaN
       ELSE Rat(parseInt(whole \o fraction), Pow10(Len(fraction)))

\* uptime.match(/^(\d+\.?\d*)/): group 1, <<>> when there is no match
matchUptime(s) ==
    LET whole == TakeDigits(s)
        rest == SubSeq(s, Len(whole) + 1, Len(s))
    IN IF whole = <<>> THEN <<>>
       ELSE IF rest # <<>> /\ Head(rest) = "." THEN whole \o <<".">> \o TakeDigits(Tail(rest))
       ELSE whole

\* getHostUptime; the fallback of readHostFile is os.uptime().toString()
getHostUptime ==
    LET r == readHostFile2("/proc/uptime", decimalText(osUptime))
        uptime == r.val
    IN IF r.fallbackCalls = 1 /\ "uptime" \in osFails THEN Raised
       ELSE IF Len(uptime) > 0 /\ matchUptime(uptime) # <<>>
            THEN Returned(parseFloat(matchUptime(uptime)))
            ELSE osCall("uptime", osUptime)

\* os.loadavg().join(" ")
loadavgFallback ==
    decimalText(osLoadavg[1]) \o <<" ">> \o decimalText(osLoadavg[2])
    \o <<" ">> \o decimalText(osLoadavg[3])

\* parseFloat(part) || 0
floatOrZero(part) == IF parseFloat(part) = NaN THEN Num(0) ELSE parseFloat(part)

getHostLoadAvg ==
    LET loadAvg == readHostFile2("/proc/loadavg", loadavgFallback).val
        parts == splitWs(loadAvg)
    IN IF Len(loadAvg) > 0 /\ Len(parts) >= 3
       THEN <<floatOrZero(parts[1]), floatOrZero(parts[2]), floatOrZero(parts[3])>>
       ELSE osLoadavg

kFlags == <<"f", "l", "a", "g", "s">>
kFeatures == <<"F", "e", "a", "t", "u", "r", "e", "s">>
kLm == <<"l", "m">>
kX86_64 == <<"x", "8", "6", "_", "6", "4">>
kAarch64 == <<"a", "a", "r", "c", "h", "6", "4">>
kCpuArchitecture == <<"C", "P", "U", " ", "a", "r", "c", "h", "i", "t", "e", "c", "t", "u", "r", "e">>
kARMv8 == <<"A", "R", "M", "v", "8">>
kArmv7 == <<"a", "r", "m", "v", "7">>
kARMv7 == <<"A", "R", "M", "v", "7">>
kArm64 == <<"a", "r", "m", "6", "4">>
kArm == <<"a", "r", "m">>

getHostArch ==
    LET cpuInfo == readHostFile2("/proc/cpuinfo", <<>>).val
        lines == splitLines(cpuInfo)
        flagsLine == FindFirst(lines, LAMBDA l : includes(l, kFlags) \/ includes(l, kFeatures))
        processorLine == FindFirst(lines, LAMBDA l : \/ includes(l, kProcessorCap)
                                                     \/ includes(l, kCpuArchitecture)
                                                     \/ includes(l, kCpuImplementer))
    IN IF Len(cpuInfo) = 0 THEN osArch
       ELSE IF flagsLine # 0 /\ (includes(lines[flagsLine], kLm) \/ includes(lines[flagsLine], kX86_64))
            THEN kX64
       ELSE IF flagsLine # 0 /\ includes(lines[flagsLine], kAarch64) THEN kArm64
       ELSE IF processorLine # 0 /\ (\/ includes(lines[processorLine], kAarch64)
                                      \/ includes(lines[processorLine], kARMv8))
            THEN kArm64
       ELSE IF processorLine # 0 /\ (\/ includes(lines[processorLine], kArmv7)
                                      \/ includes(lines[processorLine], kARMv7))
            THEN kArm
       ELSE osArch

GetHostUptime ==
    /\ op = "none"
    /\ op' = "getHostUptime"
    /\ ret' = getHostUptime
    /\ UNCHANGED env

GetHostLoadAvg ==
    /\ op = "none"
    /\ op' = "getHostLoadAvg"
    /\ ret' = Returned(getHostLoadAvg)
    /\ UNCHANGED env

GetHostArch ==
    /\ op = "none"
    /\ op' = "getHostArch"
    /\ ret' = Returned(getHostArch)
    /\ UNCHANGED env

-----------------------------------------------------------------------------
(* The snapshot of the two-tier route, and the error document.             *)

\* the message of line 626, written without its accents
kErreur == <<"E", "r", "r", "e", "u", "r", " ", "l", "o", "r", "s", " ", "d", "e", " ", "l", "a", " ", "r", "e", "c", "u", "p", "e", "r", "a", "t", "i", "o", "n", " ", "d", "e", "s", " ", "i", "n", "f", "o", "r", "m", "a", "t", "i", "o", "n", "s", " ", "s", "y", "s", "t", "e", "m", "e">>

\* the document of the catch block of GET (either route)
ErrorDocument == [status |-> 500, error |-> kErreur]

\* GET2Document, wrong: the catch block answers with what was gathered
\* before the exception
GET2DocumentPartial ==
    LET cpuInfo == getHostCPUInfo2
        memory == getHostMemory2
    IN IF getHostUptime.raised \/ getHostHostname.raised \/ getHostIP.raised
       THEN [status |-> 500, error |-> kErreur,
             cpu |-> [model |-> cpuInfo.model, count |-> cpuInfo.count],
             memory |-> [total |-> memory.total, free |-> memory.free,
                         used |-> memory.total - memory.free]]
       ELSE [status |-> 200,
             os |-> [type |-> getHostOS.type, release |-> getHostOS.release, arch |-> getHostArch],
             cpu |-> [model |-> cpuInfo.model, count |-> cpuInfo.count],
             memory |-> [total |-> memory.total, free |-> memory.free,
                         used |-> memory.total - memory.free],
             uptime |-> getHostUptime.val,
             hostname |-> getHostHostname.val,
             localIP |-> getHostIP.val,
             loadAvg |-> getHostLoadAvg,
             hostMounted |-> isHostMounted]

\* the document GET of the two-tier route answers with: the extractors run
\* in the try block of lines 589-622, and the first exception that leaves
\* one of them is caught at line 623
GET2Document ==
    LET hostMounted == isHostMounted
        cpuInfo == getHostCPUInfo2
        memory == getHostMemory2
        uptime == getHostUptime
        hostname == getHostHostname
        osInfo == getHostOS
        loadAvg == getHostLoadAvg
        arch == getHostArch
        localIP == getHostIP
    IN IF uptime.raised \/ hostname.raised \/ localIP.raised THEN ErrorDocument
       ELSE [status |-> 200,
             os |-> [type |-> osInfo.type, release |-> osInfo.release, arch |-> arch],
             cpu |-> [model |-> cpuInfo.model, count |-> cpuInfo.count],
             memory |-> [total |-> memory.total, free |-> memory.free,
                         used |-> memory.total - memory.free],
             uptime |-> uptime.val,
             hostname |-> hostname.val,
             localIP |-> localIP.val,
             loadAvg |-> loadAvg,
             hostMounted |-> hostMounted]

GET2 ==
    /\ op = "none"
    /\ op' = "GET2"
    /\ ret' = GET2Document
    /\ UNCHANGED env

-----------------------------------------------------------------------------
(* Hosts of the two-tier snapshot.                                         *)

\* the documents of a host: every file with a usual content; files that
\* make the extractors fall back on the process (a container id as host
\* name, an uptime and a load average that do not parse, a routing table
\* without default route); no content at all
HostDocs ==
    {[p \in Paths \cup Paths2 |->
        CASE p = "/proc/cpuinfo" -> <<"p", "r", "o", "c", "e", "s", "s", "o", "r", "\t", ":", " ", "0", "\n", "f", "l", "a", "g", "s", "\t", ":", " ", "f", "p", "u", " ", "l", "m">>
          [] p = "/proc/meminfo" -> MemDocOf(MaxKB, 1, 2)
          [] p = "/proc/stat" -> StatDocOf(ExampleCounters)
          [] p = "/etc/hostname" -> <<"w", "e", "b", "-", "0", "1", "\n">>
          [] p = "/etc/os-release" -> <<"P", "R", "E", "T", "T", "Y", "_", "N", "A", "M", "E", "=", "\"", "D", "e", "b", "i", "a", "n", " ", "G", "N", "U", "/", "L", "i", "n", "u", "x", " ", "1", "2", "\"">>
          [] p = "/proc/version" -> kLinuxVersion \o kKernelToken
          [] p = "/proc/net/route" -> joinLines(<<kRouteHeader, kRouteExample>>)
          [] p = "/proc/uptime" -> <<"3", "5", "0", "7", "3", "5", ".", "4", "7", " ", "2", "3", "4", "3", "8", "8", ".", "9", "0", "\n">>
          [] OTHER -> <<"0", ".", "2", "0", " ", "0", ".", "1", "8", " ", "0", ".", "1", "2", " ", "1", "/", "8", "0", " ", "1", "1", "2", "0", "6", "\n">>],
     [p \in Paths \cup Paths2 |->
        CASE p = "/proc/cpuinfo" -> <<"P", "r", "o", "c", "e", "s", "s", "o", "r", "\t", ":", " ", "A", "R", "M", "v", "7", " ", "r", "e", "v", " ", "4">>
          [] p = "/proc/meminfo" -> MemDocOf(MaxKB, 1, -1)
          [] p = "/proc/stat" -> StatDocOf(<<1, 0, MaxTick>>)
          [] p = "/etc/hostname" -> kContainerId
          [] p = "/etc/os-release" -> <<"I", "D", "=", "a", "l", "p", "i", "n", "e">>
          [] p = "/proc/version" -> <<"L", "i", "n", "u", "x", " ", "v", "e", "r", "s", "i", "o", "n", " ", "5", ".", "1", "5", ".", "4", "9", "-", "l", "i", "n", "u", "x", "k", "i", "t", " ", "(", "r", "o", "o", "t", ")">>
          [] p = "/proc/net/route" -> kRouteHeader
          [] p = "/proc/uptime" -> <<"u", "p", " ", "3", " ", "d", "a", "y", "s">>
          [] OTHER -> <<"0", ".", "2", "0", " ", "x">>],
     [p \in Paths \cup Paths2 |-> <<>>]}

InitSnapshot2 ==
    /\ \E docs \in HostDocs, tier \in {0, 2, 3} :
          fsys = FsDocsAt(docs, tier, FALSE, FALSE)
    /\ statfsQ = NoStatfs
    /\ osCpus \in {CpusOf(n, <<"Z", "8", "0">>) : n \in 0..MaxOsCpus}
    /\ osTotalmem = 5000
    /\ osFreemem = 2500
    /\ osLoadavg = LoadavgOf(1)
    /\ osHostname = kWeb01
    /\ osRelease = kRelease
    /\ osType = kLinux
    /\ osArch = kX64
    /\ osUptime \in {Num(60), Rat(125, 2)}
    /\ osInterfaces \in {<<>>, <<kLoopback, kEth0>>}
    /\ osFails \in SUBSET OsCalls
    /\ NoScript
    /\ op = "none"
    /\ ret = <<>>

NextSnapshot2 ==
    \/ GET2
    \/ GET
    \/ GetHostCPUInfo2
    \/ GetHostMemory2
    \/ GetHostUptime
    \/ GetHostHostname
    \/ GetHostOS
    \/ GetHostLoadAvg
    \/ GetHostArch
    \/ GetHostIP

\* the two snapshots, with os calls that may throw
SpecSnapshot2 == InitSnapshot2 /\ [][NextSnapshot2]_vars

\* the fields of the success documents and of the error document
SuccessFields == {"status", "memory", "cpu", "disk", "hostMounted"}
SuccessFields2 == {"status", "os", "cpu", "memory", "uptime", "hostname",
                   "localIP", "loadAvg", "hostMounted"}
ErrorFields == {"status", "error"}

\* an exception leaves an extractor of the two-tier snapshot
ExtractorRaises == getHostUptime.raised \/ getHostHostname.raised \/ getHostIP.raised

\* C16: GET answers with one of two documents: the complete success
\* document, or, when an exception leaves an extractor, the error document
\* of status 500 with its `error` field alone; never a mix of the two, never
\* a part of the metric fields, and the exception goes no further.
C16_SuccessOrErrorDocument ==
    /\ op = "GET" =>
          /\ DOMAIN ret = SuccessFields
          /\ ret.status = 200
          /\ DOMAIN ret.memory = {"total", "free", "available", "used"}
          /\ DOMAIN ret.cpu = {"count", "usage"}
          /\ DOMAIN ret.disk = {"total", "used", "free", "usage"}
    /\ (op = "GET2" /\ ExtractorRaises) =>
          /\ DOMAIN ret = ErrorFields
          /\ ret.status = 500
          /\ ret.error # <<>>
    /\ (op = "GET2" /\ ~ExtractorRaises) =>
          /\ DOMAIN ret = SuccessFields2
          /\ ret.status = 200
          /\ DOMAIN ret.os = {"type", "release", "arch"}
          /\ DOMAIN ret.cpu = {"model", "count"}
          /\ DOMAIN ret.memory = {"total", "free", "used"}

\* C16's case: os.networkInterfaces() throws in the last extractor, after
\* every other one has returned, and GET answers with the error document.
C16_Witness ==
    /\ op = "GET2"
    /\ getHostIP.raised
    /\ ~getHostUptime.raised
    /\ ~getHostHostname.raised
    /\ ret = ErrorDocument

-----------------------------------------------------------------------------
(* createTempUsers.sh: accounts, at(1) and atd.                            *)

\* `at now + 2 hours`
TwoHours == 2

kUserdel == <<"u", "s", "e", "r", "d", "e", "l">>
kUserdelR == <<"u", "s", "e", "r", "d", "e", "l", " ", "-", "r", " ">>

\* the job that `echo "userdel -r $USERNAME" | at now + 2 hours` queues
Job(id, user, now) == [id |-> id, command |-> kUserdelR \o user, due |-> now + TwoHours]

\* the line of atq for a job: its number, its date, its queue and its
\* owner; atq does not print the command of the job
atqLine(j) ==
    toString(j.id) \o <<"\t", "T", "u", "e", " ", "N", "o", "v", " ", " ", "3", " ">> \o toString(j.due) \o <<":", "0", "0", ":", "0", "0", " ", "2", "0", "2", "6", " ", "a", " ", "r", "o", "o", "t">>

\* grep -i "userdel.*$USERNAME" on one line
grepUserdel(line, user) ==
    LET lower == toLowerCase(line)
    IN \E i \in 1..Len(lower) :
          /\ i + Len(kUserdel) - 1 <= Len(lower)
          /\ SubSeq(lower, i, i + Len(kUserdel) - 1) = kUserdel
          /\ includes(SubSeq(lower, i + Len(kUserdel), Len(lower)), toLowerCase(user))

\* atq | grep -i "userdel.*$USERNAME" | awk '{print $1}': the job numbers
\* handed to atrm
jobsToCancel(user) ==
    {parseInt(TakeDigits(splitWs(trim(atqLine(j)))[1])) :
        j \in {k \in atQueue : grepUserdel(atqLine(k), user)}}

\* the orders in which the loop of line 1035 may visit DEVOPS_USERS
UserOrders ==
    {<<<<"d", "e", "v", "o", "p", "s", "-", "u", "s", "e", "r", "-", "0", "1">>, <<"d", "e", "v", "o", "p", "s", "-", "u", "s", "e", "r", "-", "0", "2">>>>, <<<<"d", "e", "v", "o", "p", "s", "-", "u", "s", "e", "r", "-", "0", "2">>, <<"d", "e", "v", "o", "p", "s", "-", "u", "s", "e", "r", "-", "0", "1">>>>}

\* The script starts; one of the checks of lines 995-1007 may fail.
StartScript(order, checksPass) ==
    /\ script.pc # "running"
    /\ script.runs < MaxRuns
    /\ clock + TwoHours <= MaxClock
    /\ script' = IF checksPass
                 THEN [script EXCEPT !.pc = "running", !.todo = order, !.runs = @ + 1]
                 ELSE [script EXCEPT !.pc = "failed", !.todo = <<>>, !.runs = @ + 1]
    /\ UNCHANGED <<accounts, atQueue, clock, host, op, ret>>

\* create_user_with_password for the next user of the loop: the account
\* that exists is removed after atrm of the jobs found, useradd makes the
\* account or ends the script, and `at` queues the removal or only warns.
CreateUser(useraddOk, atOk) ==
    /\ script.pc = "running"
    /\ script.todo # <<>>
    /\ LET user == Head(script.todo)
           kept == IF accounts[user].exists
                   THEN {j \in atQueue : j.id \notin jobsToCancel(user)}
                   ELSE atQueue
       IN IF ~useraddOk
          THEN /\ accounts' = [accounts EXCEPT ![user] = NoAccount]
               /\ atQueue' = kept
               /\ script' = [script EXCEPT !.pc = "failed", !.todo = <<>>]
          ELSE /\ accounts' = [accounts EXCEPT ![user] = [exists |-> TRUE, since |-> clock]]
               /\ atQueue' = IF atOk
                              THEN kept \cup {Job(script.issued + 1, user, clock)}
                              ELSE kept
               /\ script' = [script EXCEPT !.todo = Tail(@),
                                            !.issued = IF atOk THEN @ + 1 ELSE @]
    /\ UNCHANGED <<clock, host, op, ret>>

\* the summary of lines 1148-1191: the script ends with status 0
FinishScript ==
    /\ script.pc = "running"
    /\ script.todo = <<>>
    /\ script' = [script EXCEPT !.pc = "done"]
    /\ UNCHANGED <<accounts, atQueue, clock, host, op, ret>>

\* atd runs a job that is due: userdel -r of the user its command names
RunJob(j) ==
    /\ j \in atQueue
    /\ j.due <= clock
    /\ atQueue' = atQueue \ {j}
    /\ LET user == splitWs(j.command)[3]
       IN accounts' = [u \in UserNames |-> IF u = user THEN NoAccount ELSE accounts[u]]
    /\ UNCHANGED <<clock, script, host, op, ret>>

\* an hour passes, once atd has run the jobs that are due; while the script
\* runs, only as long as the removals it queues fall within the clock
Tick ==
    /\ clock < MaxClock
    /\ \A j \in atQueue : j.due > clock
    /\ script.pc = "running" => clock + 1 + TwoHours <= MaxClock
    /\ clock' = clock + 1
    /\ UNCHANGED <<accounts, atQueue, script, host, op, ret>>

InitUsers ==
    /\ fsys = FsDocsAt(<<>>, 0, FALSE, FALSE)
    /\ statfsQ = NoStatfs
    /\ osCpus = CpusOf(1, <<"Z", "8", "0">>)
    /\ osTotalmem = 4096
    /\ osFreemem = 1024
    /\ osLoadavg = LoadavgOf(1)
    /\ OsDefaults
    /\ NoScript
    /\ op = "none"
    /\ ret = <<>>

NextUsers ==
    \/ \E order \in UserOrders, checksPass \in BOOLEAN : StartScript(order, checksPass)
    \/ \E useraddOk, atOk \in BOOLEAN : CreateUser(useraddOk, atOk)
    \/ FinishScript
    \/ \E j \in atQueue : RunJob(j)
    \/ Tick

\* The script, atd and the clock.  A started script goes on, atd runs the
\* jobs that are due, and time passes.
SpecUsers ==
    /\ InitUsers
    /\ [][NextUsers]_vars
    /\ WF_vars(\E useraddOk, atOk \in BOOLEAN : CreateUser(useraddOk, atOk))
    /\ WF_vars(FinishScript)
    /\ WF_vars(\E j \in atQueue : RunJob(j))
    /\ WF_vars(Tick)

\* the pending removals of a user
RemovalsOf(user) == {j \in atQueue : j.command = kUserdelR \o user}

\* every account has, once the script has finished successfully, a pending
\* removal due two hours after its creation, and no pending removal of it
\* is due earlier
RemovalsInTwoHours ==
    \A u \in UserNames :
        accounts[u].exists =>
            /\ script.pc = "done" =>
                  \E j \in RemovalsOf(u) : j.due = accounts[u].since + TwoHours
            /\ \A j \in RemovalsOf(u) : j.due >= accounts[u].since + TwoHours

\* C17: whenever the script has finished successfully, every user it
\* created has a pending `userdel -r <user>` job due two hours after its
\* creation, so every created user is eventually removed; and the jobs an
\* earlier run queued for a user that is created again are cancelled, so
\* that no user is removed before its own two hours.
C17_TemporaryUsersLiveTwoHours ==
    /\ []RemovalsInTwoHours
    /\ \A u \in UserNames : accounts[u].exists ~> ~accounts[u].exists

-----------------------------------------------------------------------------
(* Aggregate cpu lines of fewer than eight counters.                       *)

\* C18: for an aggregate cpu line of 1 to 7 counters with a positive sum,
\* getHostCPUUsage takes every absent trailing counter as 0 and returns
\* busy_total / (busy_total + idle_total) * 100, without the load-average
\* fallback.
C18_AbsentTrailingCountersAreZero ==
    op = "getHostCPUUsage" =>
        LET v == StatCounters(DocumentRead("/proc/stat"))
        IN (Len(v) >= 1 /\ Len(v) < NCounters /\ SumOf(v) > 0) =>
              /\ ~ret.loadavgRead
              /\ ret.usage = Rat(BusyOf(v) * 100, SumOf(v))

-----------------------------------------------------------------------------
(* Consistency of the memory figures.                                      *)

\* the figures of the meminfo document that was read agree with each
\* other: neither MemAvailable nor MemFree exceeds MemTotal
MemDocAgrees ==
    \A t, x \in ClaimKB :
        (/\ HasLine(DocumentRead("/proc/meminfo"), MemLine(kMemTotal, t))
         /\ \/ HasLine(DocumentRead("/proc/meminfo"), MemLine(kMemAvailable, x))
            \/ HasLine(DocumentRead("/proc/meminfo"), MemLine(kMemFree, x)))
        => x <= t

=============================================================================
